---- MODULE Spec2Model ----
(***************************************************************************)
(* A model of the in-memory message/enum/field layer of API_Manager        *)
(* (src/core/core_enum.py, src/core/core_field.py,                         *)
(* src/core/core_message.py): enum declaration and default locking, field  *)
(* validation and assignment, the per-instance tag-store, the validating   *)
(* list of repeated fields, the completeness check and equality.           *)
(*                                                                         *)
(* Python values are records tagged by their Python type in field t, so    *)
(* that the integer 5 and the float 5.0 are different values, as are text  *)
(* and byte strings.                                                       *)
(***************************************************************************)
EXTENDS Integers, Sequences, FiniteSets, TLC

VARIABLES
  msg,      \* the message instance under construction/mutation, or NoMsg
  other,    \* a second instance, the right-hand side of comparisons, or NoMsg
  last,     \* the last operation performed: its arguments and its outcome
  enum,     \* the enum type being declared / declared, with its _DEFAULT
  calls,    \* the set_default calls made on enum so far, in order
  namespace, \* the definition classes the interpreter holds, by dotted path
  fields,   \* the field descriptors constructed so far, by variable name
  classes,  \* the message classes declared from them, by class name
  readers   \* the threads reading a descriptor's lazy properties, by thread

vars == <<msg, other, last, enum, calls, namespace, fields, classes, readers>>

----------------------------------------------------------------------------
(* Bounds of the model.                                                    *)

\* Longest list stored in, or supplied to, a repeated field.
MaxLen == 2

\* Longest sequence of member declarations of an enum type.
MaxMembers == 3

\* Largest number of keyword arguments of a constructor call.
MaxKwargs == 2

\* Largest number of set_default calls on an enum type.
MaxCalls == 3

\* Longest sequence assigned to a slice of a stored list.
MaxSlice == 1

\* Largest number of keyword arguments of a constructor call that precedes
\* list operations.
MaxListKwargs == 1

\* Largest number of characters of a string offered to an email field.
MaxEmailLen == 6

\* Largest number of parts of a dotted name handed to find_definition.
MaxNameLen == 3

----------------------------------------------------------------------------
(* Program constants.                                                      *)

MAX_ENUM_VALUE == 536870911
MAX_FIELD_NUMBER == 536870911
FIRST_RESERVED_FIELD_NUMBER == 19000
LAST_RESERVED_FIELD_NUMBER == 19999

----------------------------------------------------------------------------
(* Python values.                                                          *)

NoneV == [t |-> "none"]
IntV(n) == [t |-> "int", v |-> n]
FloatV(n) == [t |-> "float", v |-> n]
BoolV(b) == [t |-> "bool", v |-> b]
TextV(s) == [t |-> "text", v |-> s]
BytesV(s, isAscii) == [t |-> "bytes", v |-> s, ascii |-> isAscii]
EnumV(e, nm, num) == [t |-> "enum", enum |-> e, name |-> nm, number |-> num]
ListV(xs) == [t |-> "list", elems |-> xs]
TupleV(xs) == [t |-> "tuple", elems |-> xs]
DictV(items) == [t |-> "dict", items |-> items]
MsgV(T, tags, unrec) ==
  [t |-> "msg", type |-> T, tags |-> tags, unrec |-> unrec, attrs |-> <<>>]
\* A FieldList remembers the field (owning message type and number) that
\* validates it.
FieldListV(T, number, xs) ==
  [t |-> "fieldlist", owner |-> T, number |-> number, elems |-> xs]

EmptyDict == <<>>
NoMsg == [t |-> "nomsg"]

\* An exception: its class and the message_name attribute it carries ("" when
\* it has none).
Error(kind) == [kind |-> kind, message_name |-> ""]

\* Outcome of a call: the value returned (errs empty), or the exceptions the
\* call may raise.  A call raises one exception; it has several possible ones
\* only where the code iterates over a dict, whose order is arbitrary.
Ok(v) == [errs |-> {}, val |-> v]
Raise(kind) == [errs |-> {Error(kind)}, val |-> NoneV]
RaiseAny(es) == [errs |-> es, val |-> NoneV]
Failed(r) == r.errs # {}

\* Two statements in sequence: the exception of the first ends the call,
\* else the outcome is that of the second.
Then(r, next) == IF Failed(r) THEN r ELSE next

\* One iteration of a loop that builds a list, and the rest of the loop.
ThenCons(r, rest) ==
  IF Failed(r) THEN r
  ELSE IF Failed(rest) THEN rest ELSE Ok(<<r.val>> \o rest.val)

\* The list built from the elements a loop has produced.
ThenList(r) == IF Failed(r) THEN r ELSE Ok(ListV(r.val))

\* One iteration of a loop over the items of a dict, whose order is
\* arbitrary, and the rest of the loop: when the iteration fails, the loop
\* may have raised its error or that of any other failing iteration.
ThenAnyOrder(r, rest) ==
  IF Failed(r) THEN [errs |-> r.errs \cup rest.errs, val |-> r.val] ELSE rest

----------------------------------------------------------------------------
(* Enumerated types: _EnumClass.__init__, lookups, set_default.            *)

\* isinstance(value, six.integer_types): bool is a subclass of int.
IsInteger(value) == value.t \in {"int", "bool"}

\* The number a Python integer (or bool) stands for.
IntOf(value) == IF value.t = "bool" THEN (IF value.v THEN 1 ELSE 0) ELSE value.v

\* An enum type that has not been declared yet.
NoEnum == [status |-> "undeclared"]

\* An enum instance: object.__new__(cls) initialised with (name, number).
EnumInstance(nm, num) == [name |-> nm, number |-> num]

\* min(cls.__by_number.keys())
MinNumber(by_number) ==
  CHOOSE n \in DOMAIN by_number : \A m \in DOMAIN by_number : n <= m

lookup_by_number(e, number) == e.by_number[number]

lookup_by_name(e, nm) == e.by_name[nm]

\* The loop of _EnumClass.__init__ over dct.items(), in the order items:
\* each member is checked and entered in both maps; the first bad member
\* raises EnumDefinitionError.
RECURSIVE EnumMembers(_, _, _)

\* EnumMembers without the comparison with MAX_ENUM_VALUE.
EnumMembersNoUpperLimit(items, by_number, by_name) ==
  IF items = <<>> THEN Ok([by_number |-> by_number, by_name |-> by_name])
  ELSE IF ~IsInteger(items[1][2]) THEN Raise("EnumDefinitionError")
  ELSE IF IntOf(items[1][2]) < 0 THEN Raise("EnumDefinitionError")
  ELSE IF IntOf(items[1][2]) \in DOMAIN by_number
  THEN Raise("EnumDefinitionError")
  ELSE EnumMembers(Tail(items),
                   (IntOf(items[1][2]) :>
                      EnumInstance(items[1][1], IntOf(items[1][2]))) @@ by_number,
                   (items[1][1] :>
                      EnumInstance(items[1][1], IntOf(items[1][2]))) @@ by_name)

EnumMembers(items, by_number, by_name) ==
  IF items = <<>> THEN Ok([by_number |-> by_number, by_name |-> by_name])
  ELSE LET attribute == items[1][1]
           value == items[1][2]
       IN IF ~IsInteger(value) THEN Raise("EnumDefinitionError")
          ELSE IF IntOf(value) < 0 THEN Raise("EnumDefinitionError")
          ELSE IF IntOf(value) > MAX_ENUM_VALUE THEN Raise("EnumDefinitionError")
          ELSE IF IntOf(value) \in DOMAIN by_number
          THEN Raise("EnumDefinitionError")
          ELSE LET instance == EnumInstance(attribute, IntOf(value))
               IN EnumMembers(Tail(items),
                              (IntOf(value) :> instance) @@ by_number,
                              (attribute :> instance) @@ by_name)

\* _EnumClass.__init__ for a class deriving from Enum: the frozen type, whose
\* _DEFAULT is the member with the lowest number when there is a member.
EnumClass_init(items) ==
  LET r == EnumMembers(items, EmptyDict, EmptyDict)
  IN IF Failed(r) THEN r
     ELSE Ok([status |-> "declared",
              by_number |-> r.val.by_number,
              by_name |-> r.val.by_name,
              has_default |-> r.val.by_number # EmptyDict,
              DEFAULT |-> IF r.val.by_number # EmptyDict
                          THEN r.val.by_number[MinNumber(r.val.by_number)]
                          ELSE EnumInstance("", 0)])

\* Enum.__eq__: instances of one type are compared by number.
EnumEq(a, b) == a.number = b.number

\* _EnumClass.set_default: allowed while _DEFAULT still equals the member
\* with the lowest number.
set_default(e, name_or_number) ==
  IF ~e.has_default THEN Raise("AttributeError")
  ELSE IF EnumEq(e.DEFAULT, lookup_by_number(e, MinNumber(e.by_number)))
  THEN IF IsInteger(name_or_number)
       THEN IF IntOf(name_or_number) \in DOMAIN e.by_number
            THEN Ok([e EXCEPT !.DEFAULT =
                                lookup_by_number(e, IntOf(name_or_number))])
            ELSE Raise("TypeError")
       ELSE IF name_or_number.v \in DOMAIN e.by_name
            THEN Ok([e EXCEPT !.DEFAULT = lookup_by_name(e, name_or_number.v)])
            ELSE Raise("TypeError")
  ELSE Raise("AttributeError")

----------------------------------------------------------------------------
(* Declared types used by the model.  TradeType, Lot and Order are the     *)
(* declarations of src/test.py (repeated at the end of core_message.py);   *)
(* HasDefault is the example of Message.__eq__'s docstring with the        *)
(* default "dv"; Reading and Account are further declarations built from   *)
(* the same field classes, so that every field kind the checks are about   *)
(* (a Float field, a required field with a default, a singular message     *)
(* field, three levels of nesting) occurs in some type.                    *)

TradeType ==
  EnumClass_init(<<<<"BUY", IntV(1)>>, <<"SELL", IntV(2)>>,
                   <<"SHORT", IntV(3)>>, <<"CALL", IntV(4)>>>>).val

\* The declared enum types, by name.
Enums == [TradeType |-> TradeType]

\* A member of a declared enum type, as a Python value.
Member(e, nm) == EnumV(e, nm, Enums[e].by_name[nm].number)

\* A field descriptor as Field.__init__ leaves it (number, required,
\* repeated, default) with the name _MessageClass.__new__ binds to it; kind
\* is the Field subclass and target the message or enum class handed to a
\* MessageField or EnumField ("" for the other kinds).  type_name is the
\* name handed to a MessageField or EnumField in place of the class, as the
\* list of its dot-separated parts; message_definition is the containing
\* message class, bound when that class is created.
Field(nm, number, kind, required, repeated, default, target) ==
  [name |-> nm, number |-> number, kind |-> kind, required |-> required,
   repeated |-> repeated, default |-> default, target |-> target,
   type_name |-> <<>>, message_definition |-> ""]

\* MessageField(type_name, number): a message field declared with the name
\* of its type, to be resolved when the type is first needed.
NamedMessageField(nm, number, required, repeated, type_name) ==
  [Field(nm, number, "Message", required, repeated, NoneV, "")
     EXCEPT !.type_name = type_name]

Lot ==
  ("price" :> Field("price", 1, "Integer", TRUE, FALSE, NoneV, "")) @@
  ("quantity" :> Field("quantity", 2, "Integer", TRUE, FALSE, NoneV, ""))

Order ==
  ("symbol" :> Field("symbol", 1, "String", TRUE, FALSE, NoneV, "")) @@
  ("total_quantity" :>
     Field("total_quantity", 2, "Integer", TRUE, FALSE, NoneV, "")) @@
  ("trade_type" :>
     Field("trade_type", 3, "Enum", TRUE, FALSE, NoneV, "TradeType")) @@
  ("lots" :> Field("lots", 4, "Message", FALSE, TRUE, NoneV, "Lot")) @@
  ("limit" :> Field("limit", 5, "Integer", FALSE, FALSE, NoneV, ""))

HasDefault ==
  ("attr1" :> Field("attr1", 1, "String", FALSE, FALSE, TextV("dv"), "")) @@
  ("level" :> Field("level", 2, "Integer", TRUE, FALSE, IntV(7), ""))

Reading ==
  ("ratio" :> Field("ratio", 1, "Float", FALSE, FALSE, NoneV, "")) @@
  ("ratios" :> Field("ratios", 2, "Float", FALSE, TRUE, NoneV, ""))

Account ==
  ("order" :> Field("order", 1, "Message", FALSE, FALSE, NoneV, "Order")) @@
  ("profile" :>
     Field("profile", 2, "Message", FALSE, FALSE, NoneV, "HasDefault")) @@
  ("lots" :> Field("lots", 3, "Message", FALSE, TRUE, NoneV, "Lot"))

\* A message type whose fields name their types: Lot is found in the module
\* of the declaration, Missing is declared nowhere.
Forward ==
  ("lot" :> NamedMessageField("lot", 1, FALSE, FALSE, <<"Lot">>)) @@
  ("missing" :> NamedMessageField("missing", 2, FALSE, FALSE, <<"Missing">>))

\* A message type with enum fields that declare a default: by the name of
\* a member with the enum class given, by the number of a member with the
\* enum type given by name.
Choice ==
  ("side" :> Field("side", 1, "Enum", FALSE, FALSE, TextV("SELL"), "TradeType")) @@
  ("kind" :> [Field("kind", 2, "Enum", FALSE, FALSE, IntV(3), "")
                EXCEPT !.type_name = <<"TradeType">>])

\* A message type with a singular and a repeated email field.
Contact ==
  ("email" :> Field("email", 1, "Email", FALSE, FALSE, NoneV, "")) @@
  ("emails" :> Field("emails", 2, "Email", FALSE, TRUE, NoneV, ""))

\* The class bodies of the declared message types.
Declarations ==
  [Lot |-> Lot, Order |-> Order, HasDefault |-> HasDefault,
   Reading |-> Reading, Account |-> Account, Forward |-> Forward,
   Choice |-> Choice, Contact |-> Contact]

\* Message.__by_name of every declared message type, each field bound to
\* its class by _MessageClass.__init__.
Bound_by_name(T, dct) ==
  [nm \in DOMAIN dct |-> [dct[nm] EXCEPT !.message_definition = T]]
BoundAll(declarations) ==
  [T \in DOMAIN declarations |-> Bound_by_name(T, declarations[T])]
by_name == BoundAll(Declarations)

MessageTypes == DOMAIN by_name

\* Message.all_fields
all_fields(T) == {by_name[T][nm] : nm \in DOMAIN by_name[T]}

\* Message.field_by_number
field_by_number(T, number) ==
  CHOOSE f \in all_fields(T) : f.number = number

----------------------------------------------------------------------------
(* Resolution of type names: find_definition.  Modules and definition      *)
(* classes are objects named by their dotted path, a list of names; every  *)
(* declared type is a top-level class of the module test.                  *)

\* None, a module, a definition class, any other attribute value.
NoObject == [k |-> "none", path |-> <<>>]
ModuleObject(path) == [k |-> "module", path |-> path]
ClassObject(path) == [k |-> "class", path |-> path]
OtherObject == [k |-> "other", path |-> <<>>]

\* The modules the importer finds: test, the package pkg and its module
\* pkg.sub.
Modules == {<<"test">>, <<"pkg">>, <<"pkg", "sub">>}

\* Classes declared in pkg and pkg.sub, some inside the message class
\* Outer: pkg.Top; pkg.sub.Sibling, pkg.sub.Outer and, nested in Outer, the
\* message classes Inner and Sibling and the enum class Color.
NestedDefinitions ==
  (<<"pkg", "Top">> :> [base |-> "Message", attrs |-> {}]) @@
  (<<"pkg", "sub", "Sibling">> :> [base |-> "Message", attrs |-> {}]) @@
  (<<"pkg", "sub", "Outer">> :> [base |-> "Message", attrs |-> {"count"}]) @@
  (<<"pkg", "sub", "Outer", "Inner">> :> [base |-> "Message", attrs |-> {}]) @@
  (<<"pkg", "sub", "Outer", "Sibling">> :> [base |-> "Message", attrs |-> {}]) @@
  (<<"pkg", "sub", "Outer", "Color">> :> [base |-> "Enum", attrs |-> {"RED"}])

\* cls.__module__ of a class, by the name of the class.
ModuleOf(T) ==
  IF T = "Top" THEN <<"pkg">>
  ELSE IF T \in {"Outer", "Inner", "Sibling", "Color"} THEN <<"pkg", "sub">>
  ELSE <<"test">>

\* The definition classes that exist once the modules are imported, by
\* dotted path: whether the class is a Message or an Enum class, and the
\* names of its other attributes (its fields, its members).
Definitions ==
  [p \in {ModuleOf(T) \o <<T>> : T \in DOMAIN Declarations \cup DOMAIN Enums} |->
     IF p[Len(p)] \in DOMAIN Declarations
     THEN [base |-> "Message", attrs |-> DOMAIN Declarations[p[Len(p)]]]
     ELSE [base |-> "Enum", attrs |-> DOMAIN Enums[p[Len(p)]].by_name]]
  @@ NestedDefinitions

\* The dotted paths of the message and enum classes that exist.
ClassPaths == DOMAIN namespace

\* cls.__name__ of a class object.
ClassName(o) == o.path[Len(o.path)]

\* isinstance(o, type) and issubclass(o, Message) / issubclass(o, Enum)
IsMessageClass(o) ==
  o.k = "class" /\ o.path \in ClassPaths /\ namespace[o.path].base = "Message"
IsEnumClass(o) ==
  o.k = "class" /\ o.path \in ClassPaths /\ namespace[o.path].base = "Enum"

\* A message_definition() that knows no containing class.
message_definition_None(o) == NoObject

\* cls.message_definition(): the message class containing a class; None for
\* a top-level class.
message_definition(o) ==
  IF Len(o.path) > 1 /\ SubSeq(o.path, 1, Len(o.path) - 1) \in ClassPaths
  THEN ClassObject(SubSeq(o.path, 1, Len(o.path) - 1))
  ELSE NoObject

\* getattr(next, node, None): a class declared in a module or in a message
\* class; a field or a member of a class; else None.
Attribute(next, node) ==
  IF next.k \in {"module", "class"} /\ next.path \o <<node>> \in ClassPaths
  THEN ClassObject(next.path \o <<node>>)
  ELSE IF next.k = "class" /\ next.path \in ClassPaths /\
          node \in namespace[next.path].attrs
  THEN OtherObject
  ELSE NoObject

\* importer(module_name, '', '', [fromitem]): the module, or ImportError.
Import(module_name) ==
  IF module_name \in Modules THEN Ok(ModuleObject(module_name))
  ELSE Raise("ImportError")

\* The except clause around the importer in search_path: None on
\* ImportError.
ImportedOrNone(r) == IF Failed(r) THEN NoObject ELSE r.val

\* One iteration of the loop of search_path, attribute being
\* getattr(next, node, None): the object the name node leads to from next,
\* None when the search ends there.
SearchStep(next, node, attribute) ==
  IF attribute # NoObject THEN attribute
  ELSE IF next.k \in {"none", "module"}
  THEN ImportedOrNone(Import(next.path \o <<node>>))
  ELSE NoObject

RECURSIVE search_path(_, _)
RECURSIVE SearchOn(_, _)

\* The end of an iteration of search_path's loop: the search stops at an
\* object that is neither a module nor a definition class.
SearchOn(next, name_path) ==
  IF next.k \notin {"module", "class"} THEN NoObject
  ELSE search_path(next, name_path)

\* search_path of find_definition, from next along name_path.
search_path(next, name_path) ==
  IF name_path = <<>> THEN next
  ELSE SearchOn(SearchStep(next, name_path[1], Attribute(next, name_path[1])),
                Tail(name_path))

\* A widening that leaves relative_to where it is.
Widen_Stays(relative_to, parent) == Ok(relative_to)

\* The next relative_to of find_definition's loop: the parent module of a
\* module (None above a top-level module); for a message class, parent
\* being its message_definition(), the parent or, without one, the module
\* of the class.
Widen(relative_to, parent) ==
  IF relative_to.k = "module"
  THEN IF Len(relative_to.path) = 1 THEN Ok(NoObject)
       ELSE Import(SubSeq(relative_to.path, 1, Len(relative_to.path) - 1))
  ELSE IF parent = NoObject
  THEN Import(ModuleOf(ClassName(relative_to)))
  ELSE Ok(parent)

RECURSIVE FindLoop(_, _)
RECURSIVE FindFound(_, _, _)
RECURSIVE FindWidened(_, _)

\* The loop goes on from the widened relative_to (an ImportError of the
\* importer propagates).
FindWidened(name_path, widened) ==
  IF Failed(widened) THEN widened ELSE FindLoop(name_path, widened.val)

\* The body of the while loop after search_path returned found.
FindFound(name_path, relative_to, found) ==
  IF found.k = "class" THEN Ok(found)
  ELSE IF relative_to = NoObject THEN Raise("DefinitionNotFoundError")
  ELSE FindWidened(name_path,
                   Widen(relative_to, message_definition(relative_to)))

\* The while loop of find_definition.
FindLoop(name_path, relative_to) ==
  FindFound(name_path, relative_to, search_path(relative_to, name_path))

\* find_definition(name, relative_to); name is given as name.split('.'), a
\* leading empty part marking a fully qualified name.
find_definition(name_path, relative_to) ==
  IF ~(relative_to = NoObject \/ relative_to.k = "module" \/
       IsMessageClass(relative_to))
  THEN Raise("TypeError")
  ELSE FindLoop(IF name_path # <<>> /\ name_path[1] = ""
                THEN Tail(name_path) ELSE name_path,
                IF name_path # <<>> /\ name_path[1] = ""
                THEN NoObject ELSE relative_to)

----------------------------------------------------------------------------
(* Field validation: Field.validate_element, Field.__validate, FieldList.  *)

\* The check MessageField.type and EnumField.type make of what
\* find_definition found.
FoundType(f, found) ==
  IF Failed(found) THEN found
  ELSE IF (f.kind = "Message" /\ IsMessageClass(found.val)) \/
          (f.kind = "Enum" /\ IsEnumClass(found.val))
  THEN Ok(ClassName(found.val))
  ELSE Raise("FieldDefinitionError")

\* self.type of a field: the class values are checked against.  A message
\* or enum field declared with a name resolves it with find_definition,
\* relative to the message class that contains the field.
Field_type(f) ==
  IF f.type_name = <<>> THEN Ok(f.target)
  ELSE FoundType(f, find_definition(f.type_name,
                      IF f.message_definition = "" THEN NoObject
                      ELSE ClassObject(ModuleOf(f.message_definition) \o
                                       <<f.message_definition>>)))

\* isinstance(value, self.type), self.type being the Python type of the
\* field's kind (six.integer_types, float, bool, bytes, six.text_type, the
\* message class, the enum class).
IsInstance(kind, type, value) ==
  CASE kind = "Integer" -> value.t \in {"int", "bool"}
    [] kind = "Float" -> value.t = "float"
    [] kind = "Boolean" -> value.t = "bool"
    [] kind = "Bytes" -> value.t = "bytes"
    [] kind = "String" -> value.t = "text"
    [] kind = "Email" -> value.t = "text"
    [] kind = "Message" -> value.t = "msg" /\ value.type = type
    [] kind = "Enum" -> value.t = "enum" /\ value.enum = type

\* The body of Field.validate_element, type being the outcome of
\* self.type.
ValidateAgainst(f, type, value) ==
  IF Failed(type) THEN type
  ELSE IF ~IsInstance(f.kind, type.val, value)
  THEN IF IsInteger(value) /\ f.kind = "Float"
       THEN Ok(FloatV(IntOf(value)))
       ELSE IF value = NoneV
       THEN IF f.required THEN Raise("ValidationError") ELSE Ok(value)
       ELSE Raise("ValidationError")
  ELSE Ok(value)

\* Field.validate_element
Field_validate_element(f, value) == ValidateAgainst(f, Field_type(f), value)

\* StringField.validate_element: a byte string is accepted as it is when it
\* decodes as ASCII.
StringField_validate_element(f, value) ==
  IF value.t = "bytes"
  THEN IF value.ascii THEN Ok(value) ELSE Raise("ValidationError")
  ELSE Field_validate_element(f, value)

\* The text offered to an EmailField is a list of characters over
\* Alphabet: a letter, the dot, the at sign and the opening parenthesis.
Alphabet == {"a", ".", "@", "("}

\* The character classes of the patterns of validation_util, over
\* Alphabet: [a-zA-Z], [a-zA-Z0-9], [a-zA-Z0-9-_], [a-zA-Z0-9-], and the
\* class of rule_all_characters (in which +-= is a range that holds the
\* dot).
Letter(c) == c = "a"
Alnum(c) == c = "a"
LabelChar(c) == c = "a"
HyphenChar(c) == c = "a"
LocalChar(c) == c \in {"a", "."}

\* str.split: the parts of s between the occurrences of sep, i being the
\* index of the first occurrence in SplitAt.
RECURSIVE Split(_, _)
FirstIndex(s, sep) ==
  CHOOSE i \in DOMAIN s : s[i] = sep /\ \A j \in 1..(i - 1) : s[j] # sep
SplitAt(s, sep, i) ==
  <<SubSeq(s, 1, i - 1)>> \o Split(SubSeq(s, i + 1, Len(s)), sep)
Split(s, sep) ==
  IF \A i \in DOMAIN s : s[i] # sep THEN <<s>>
  ELSE SplitAt(s, sep, FirstIndex(s, sep))

\* The first group of the pattern of valid_domain: one or two characters
\* that are not both digits, or an alphanumeric, 1 to 61 characters of
\* [a-zA-Z0-9-_] and an alphanumeric.
FirstLabel(l) ==
  \/ Len(l) = 1 /\ Letter(l[1])
  \/ Len(l) = 2 /\ Alnum(l[1]) /\ Alnum(l[2]) /\ (Letter(l[1]) \/ Letter(l[2]))
  \/ /\ Len(l) \in 3..63
     /\ Alnum(l[1])
     /\ Alnum(l[Len(l)])
     /\ \A i \in 2..(Len(l) - 1) : LabelChar(l[i])

\* The pattern of valid_domain on the parts of the domain between its dots:
\* the first group holds no dot and is followed by a dot and either 2 to 6
\* letters, or 2 to 30 characters of [a-zA-Z0-9-], a dot and 2 or 3
\* letters.
DomainParts(parts) ==
  /\ Len(parts) \in {2, 3}
  /\ FirstLabel(parts[1])
  /\ \/ /\ Len(parts) = 2
        /\ Len(parts[2]) \in 2..6
        /\ \A i \in DOMAIN parts[2] : Letter(parts[2][i])
     \/ /\ Len(parts) = 3
        /\ Len(parts[2]) \in 2..30
        /\ \A i \in DOMAIN parts[2] : HyphenChar(parts[2][i])
        /\ Len(parts[3]) \in 2..3
        /\ \A i \in DOMAIN parts[3] : Letter(parts[3][i])

\* validation_util.valid_domain(domain)[0]: re.match of the pattern.
valid_domain(domain) == DomainParts(Split(domain, "."))

\* validation_util.valid_email_localpart(name): rule_all_characters (the
\* pattern matches len(name) characters of the class, none for the empty
\* name), rule_dots, rule_length_and_type.
valid_email_localpart(name) ==
  /\ \A i \in DOMAIN name : LocalChar(name[i])
  /\ (name = <<>> \/ (name[1] # "." /\ name[Len(name)] # "."))
  /\ \A i \in 1..(Len(name) - 1) : ~(name[i] = "." /\ name[i + 1] = ".")
  /\ Len(name) <= 63

\* The return statements of valid_email for an email that holds an at
\* sign, parts being email.split('@').
EmailParts(parts) ==
  IF Len(parts) = 2
  THEN <<BoolV(valid_email_localpart(parts[1])), BoolV(valid_domain(parts[2]))>>
  ELSE <<NoneV, IntV(Len(parts))>>

\* validation_util.valid_email(email), email being a string: the pair
\* (valid_uname, valid_domain).
valid_email(email) ==
  IF \E i \in DOMAIN email : email[i] = "@" THEN EmailParts(Split(email, "@"))
  ELSE <<NoneV, NoneV>>

\* The truth value of a Python value, the strings being lists of
\* characters: None, the empty string and zero are false.
Truthy(value) ==
  CASE value.t = "none" -> FALSE
    [] value.t = "text" -> value.v # <<>>
    [] value.t = "bool" -> value.v
    [] value.t = "int" -> value.v # 0
    [] OTHER -> TRUE

\* The body of EmailField.validate_element, r being the outcome of the
\* validate_element of StringField: a value that is false is not checked
\* and the method returns None; a string is returned when valid_email
\* finds both of its parts valid.
CheckEmail(value, r) ==
  IF Failed(r) THEN r
  ELSE IF ~Truthy(r.val) THEN Ok(NoneV)
  ELSE IF valid_email(value.v) = <<BoolV(TRUE), BoolV(TRUE)>> THEN Ok(value)
  ELSE Raise("ValidationError")

\* EmailField.validate_element
EmailField_validate_element(f, value) ==
  CheckEmail(value, StringField_validate_element(f, value))

\* validate_element of the field's class; the one of an email field is
\* applied by EmailField_set, which the assignments to email fields use.
validate_element(f, value) ==
  IF f.kind = "String" THEN StringField_validate_element(f, value)
  ELSE Field_validate_element(f, value)

\* isinstance(value, (list, tuple)); a FieldList is a list.
IsSequence(value) == value.t \in {"list", "tuple", "fieldlist"}

\* The loop of Field.__validate over the elements of a repeated value: the
\* validated elements, or the error of the first element that is None or
\* fails validate_element.
RECURSIVE ValidateElements(_, _)
ValidateElements(f, elems) ==
  IF elems = <<>> THEN Ok(<<>>)
  ELSE IF elems[1] = NoneV THEN Raise("ValidationError")
  ELSE ThenCons(validate_element(f, elems[1]),
                ValidateElements(f, Tail(elems)))

\* Field.validate (Field.__validate with validate_element)
validate(f, value) ==
  IF ~f.repeated THEN validate_element(f, value)
  ELSE IF IsSequence(value)
       THEN ThenList(ValidateElements(f, value.elems))
       ELSE IF value # NoneV THEN Raise("ValidationError")
       ELSE Ok(value)

\* FieldList.__init__: the sequence is validated, and the list is then built
\* from the sequence itself (list.__init__(self, sequence)).
FieldList_init(T, f, sequence) ==
  IF ~f.repeated THEN Raise("FieldDefinitionError")
  ELSE Then(validate(f, sequence),
            IF ~IsSequence(sequence) THEN Raise("TypeError")
            ELSE Ok(FieldListV(T, f.number, sequence.elems)))

----------------------------------------------------------------------------
(* Assignment and construction: Field.__set__, MessageField.__set__,       *)
(* Message.__setattr__, Message.__init__.                                  *)

\* dict.pop(key, None) on a tag-store.
Pop(tags, number) == [n \in DOMAIN tags \ {number} |-> tags[n]]

\* name.startswith('_Message__'), over the names the calls use.  The names
\* of the instance's own stores (_Message__tags,
\* _Message__unrecognized_fields) are not among them.
PrivateNames == {"_Message__cache"}
startswith_Message(nm) == nm \in PrivateNames

\* tags[number] = value
Put(tags, number, value) == (number :> value) @@ tags

\* dict.get(key): None when the key is absent.
Get(tags, number) == IF number \in DOMAIN tags THEN tags[number] ELSE NoneV

\* Field.__set__ refusing None for a required field.
Field_set_RequiredRefusesNone(m, f, value) ==
  IF value = NoneV
  THEN IF f.repeated \/ f.required THEN Raise("ValidationError")
       ELSE Ok([m EXCEPT !.tags = Pop(m.tags, f.number)])
  ELSE IF f.repeated
  THEN Then(validate(f, value),
            IF ~IsSequence(value) THEN Raise("TypeError")
            ELSE Ok([m EXCEPT !.tags =
                       Put(m.tags, f.number,
                           FieldListV(m.type, f.number, value.elems))]))
  ELSE IF Failed(validate(f, value)) THEN validate(f, value)
  ELSE Ok([m EXCEPT !.tags = Put(m.tags, f.number, validate(f, value).val)])

\* Field.__set__ clearing the tag for None whether or not the field is
\* repeated.
Field_set_NoneClears(m, f, value) ==
  IF value = NoneV
  THEN Ok([m EXCEPT !.tags = Pop(m.tags, f.number)])
  ELSE IF f.repeated
  THEN Then(validate(f, value),
            IF ~IsSequence(value) THEN Raise("TypeError")
            ELSE Ok([m EXCEPT !.tags =
                       Put(m.tags, f.number,
                           FieldListV(m.type, f.number, value.elems))]))
  ELSE IF Failed(validate(f, value)) THEN validate(f, value)
  ELSE Ok([m EXCEPT !.tags = Put(m.tags, f.number, validate(f, value).val)])

\* message_instance._Message__tags[self.number] = value, value being the
\* outcome r of the statement before.
SetTag(m, number, r) ==
  IF Failed(r) THEN r ELSE Ok([m EXCEPT !.tags = Put(m.tags, number, r.val)])

\* Field.__set__: None clears a singular field and is refused by a repeated
\* one; a repeated value is stored as a FieldList, a singular value as
\* validate returns it.
Field_set(m, f, value) ==
  IF value = NoneV
  THEN IF f.repeated THEN Raise("ValidationError")
       ELSE Ok([m EXCEPT !.tags = Pop(m.tags, f.number)])
  ELSE SetTag(m, f.number, IF f.repeated THEN FieldList_init(m.type, f, value)
                           ELSE validate(f, value))

\* The loop of Field.__validate over the elements of a repeated email
\* field, validate_element being that of EmailField.
RECURSIVE ValidateEmails(_, _)
ValidateEmails(f, elems) ==
  IF elems = <<>> THEN Ok(<<>>)
  ELSE IF elems[1] = NoneV THEN Raise("ValidationError")
  ELSE ThenCons(EmailField_validate_element(f, elems[1]),
                ValidateEmails(f, Tail(elems)))

\* Field.validate of an email field.
EmailField_validate(f, value) ==
  IF ~f.repeated THEN EmailField_validate_element(f, value)
  ELSE IF IsSequence(value)
       THEN ThenList(ValidateEmails(f, value.elems))
       ELSE IF value # NoneV THEN Raise("ValidationError")
       ELSE Ok(value)

\* FieldList.__init__ for a repeated email field.
EmailList_init(T, f, sequence) ==
  Then(EmailField_validate(f, sequence),
       IF ~IsSequence(sequence) THEN Raise("TypeError")
       ELSE Ok(FieldListV(T, f.number, sequence.elems)))

\* Field.__set__ of an email field.
EmailField_set(m, f, value) ==
  IF value = NoneV
  THEN IF f.repeated THEN Raise("ValidationError")
       ELSE Ok([m EXCEPT !.tags = Pop(m.tags, f.number)])
  ELSE SetTag(m, f.number, IF f.repeated THEN EmailList_init(m.type, f, value)
                           ELSE EmailField_validate(f, value))

RECURSIVE Message_init(_, _)
RECURSIVE InitKwargs(_, _, _)
RECURSIVE InitRepeated(_, _)
RECURSIVE Message_setattr(_, _, _)
RECURSIVE MessageField_set(_, _, _)
RECURSIVE ConvertElements(_, _)
RECURSIVE SetConverted(_, _, _)
RECURSIVE SetOfType(_, _, _, _)
RECURSIVE InitKwargsFrom(_, _, _, _)
RECURSIVE InitRepeatedFrom(_, _, _)
RECURSIVE InitRepeatedOf(_, _, _)

\* The list comprehension of MessageField.__set__: every dict element is
\* replaced by message_type(**v), in list order.
ConvertElements(T, elems) ==
  IF elems = <<>> THEN Ok(<<>>)
  ELSE ThenCons(IF elems[1].t = "dict" THEN Message_init(T, elems[1].items)
                ELSE Ok(elems[1]),
                ConvertElements(T, Tail(elems)))

\* super(MessageField, self).__set__(message_instance, value), value being
\* the outcome r of the conversion before.
SetConverted(m, f, r) == IF Failed(r) THEN r ELSE Field_set(m, f, r.val)

\* The body of MessageField.__set__, message_type being the outcome of
\* self.type.
SetOfType(m, f, value, message_type) ==
  IF Failed(message_type) THEN message_type
  ELSE SetConverted(m, f,
         IF f.repeated
         THEN IF value.t \in {"list", "tuple"} /\ value.elems # <<>>
              THEN ThenList(ConvertElements(message_type.val, value.elems))
              ELSE Ok(value)
         ELSE IF value.t = "dict"
              THEN Message_init(message_type.val, value.items)
              ELSE Ok(value))

\* A __set__ of MessageField that hands the value to Field.__set__ as it is.
MessageField_set_AsGiven(m, f, value) == Field_set(m, f, value)

\* MessageField.__set__: a dict (or each dict of a non-empty list or tuple)
\* is first turned into an instance of the field's message type.
MessageField_set(m, f, value) == SetOfType(m, f, value, Field_type(f))

\* Message.__setattr__: the names of declared fields are assigned through
\* the field's __set__; a name that starts with _Message__ is stored by
\* object.__setattr__ as an attribute of the instance; any other name is
\* refused.
Message_setattr(m, nm, value) ==
  IF nm \in DOMAIN by_name[m.type]
  THEN LET f == by_name[m.type][nm]
       IN IF f.kind = "Message" THEN MessageField_set(m, f, value)
          ELSE Field_set(m, f, value)
  ELSE IF startswith_Message(nm)
  THEN Ok([m EXCEPT !.attrs = Put(m.attrs, nm, value)])
  ELSE Raise("AttributeError")

\* The rest of the first loop after one setattr with outcome r.
InitKwargsFrom(m, kwargs, names, r) ==
  ThenAnyOrder(r, InitKwargs(IF Failed(r) THEN m ELSE r.val, kwargs, names))

\* The rest of the second loop after one setattr with outcome r.
InitRepeatedFrom(m, names, r) ==
  ThenAnyOrder(r, InitRepeated(IF Failed(r) THEN m ELSE r.val, names))

\* The second loop of Message.__init__ after the first with outcome r.
InitRepeatedOf(T, kwargs, r) ==
  IF Failed(r) THEN r
  ELSE InitRepeated(r.val, {f.name : f \in {g \in all_fields(T) :
                              g.repeated /\ g.name \notin DOMAIN kwargs}})

\* The first loop of Message.__init__, over kwargs.items().  The order of a
\* dict is arbitrary and the first failing setattr raises, so the call may
\* raise the error of any failing keyword; an assignment touches only its
\* own field's tag, so the order does not change a successful result.
InitKwargs(m, kwargs, names) ==
  IF names = {} THEN Ok(m)
  ELSE LET nm == CHOOSE x \in names : TRUE
       IN InitKwargsFrom(m, kwargs, names \ {nm},
                         Message_setattr(m, nm, kwargs[nm]))

\* The second loop of Message.__init__: every repeated field that was not
\* assigned is set to [].
InitRepeated(m, names) ==
  IF names = {} THEN Ok(m)
  ELSE LET nm == CHOOSE x \in names : TRUE
       IN InitRepeatedFrom(m, names \ {nm}, Message_setattr(m, nm, ListV(<<>>)))

\* Message.__init__
Message_init(T, kwargs) ==
  InitRepeatedOf(T, kwargs,
    InitKwargs(MsgV(T, EmptyDict, EmptyDict), kwargs, DOMAIN kwargs))

----------------------------------------------------------------------------
(* Reading, resetting, the completeness check and equality.                *)

\* Enum.__new__ used as a cast: the member with that number, else the member
\* with that name, else TypeError.
EnumCast(e, index) ==
  IF index.t = "enum" /\ index.enum = e THEN Ok(index)
  ELSE IF IsInteger(index) /\ IntOf(index) \in DOMAIN Enums[e].by_number
  THEN Ok(Member(e, Enums[e].by_number[IntOf(index)].name))
  ELSE IF index.t \in {"text", "bytes"} /\ index.v \in DOMAIN Enums[e].by_name
  THEN Ok(Member(e, index.v))
  ELSE Raise("TypeError")

\* self.type(resolved_default) of EnumField.default, type being the outcome
\* of self.type.
CastDefault(f, type) ==
  IF Failed(type) THEN type ELSE EnumCast(type.val, f.default)

\* A default property that returns the default as it was declared.
Field_default_AsDeclared(f) == Ok(f.default)

\* Field.default, and EnumField.default, which casts a default given as a
\* name or a number to the member of the field's enum type.
Field_default(f) ==
  IF f.kind = "Enum" /\ (IsInteger(f.default) \/ f.default.t \in {"text", "bytes"})
  THEN CastDefault(f, Field_type(f))
  ELSE Ok(f.default)

\* Field.__get__ on an instance: the stored value, or the field's default
\* when the tag-store has none.
Field_get(m, f) ==
  IF Get(m.tags, f.number) = NoneV THEN Field_default(f)
  ELSE Ok(Get(m.tags, f.number))

\* Message.reset
reset(m, nm) ==
  IF nm \notin DOMAIN by_name[m.type] THEN Raise("AttributeError")
  ELSE LET mfield == by_name[m.type][nm]
       IN IF mfield.repeated
          THEN SetTag(m, mfield.number,
                      FieldList_init(m.type, mfield, ListV(<<>>)))
          ELSE Ok([m EXCEPT !.tags = Pop(m.tags, mfield.number)])

\* The body of MessageField.value_to_message, type being the outcome of
\* self.type.
ValueOfType(f, value, type) ==
  IF Failed(type) THEN type
  ELSE IF ~IsInstance(f.kind, type.val, value) THEN Raise("EncodeError")
  ELSE Ok(value)

\* MessageField.value_to_message
value_to_message(f, value) == ValueOfType(f, value, Field_type(f))

\* The except clause of check_initialized: a ValidationError that has no
\* message_name yet gets the name of this instance's type; any other
\* exception passes through untouched.
Annotate(errs, T) ==
  {IF e.kind = "ValidationError" /\ e.message_name = ""
   THEN [e EXCEPT !.message_name = T] ELSE e : e \in errs}

RECURSIVE check_initialized(_)
RECURSIVE CheckItems(_, _)
RECURSIVE CheckItem(_, _, _)
RECURSIVE CheckRest(_, _, _)
RECURSIVE CheckField(_, _)
RECURSIVE CheckValue(_, _, _)
RECURSIVE CheckMessages(_, _, _, _)

\* The rest of the loop over items after item.check_initialized() with
\* outcome r.
CheckRest(f, items, r) ==
  IF Failed(r) THEN r.errs ELSE CheckItems(f, items)

\* One iteration of the loop over items, v being the outcome of
\* value_to_message on the item.
CheckItem(f, items, v) ==
  IF Failed(v) THEN v.errs
  ELSE CheckRest(f, items, check_initialized(v.val))

\* The loop over the items of a repeated message field (for a singular
\* field, over its one value): the errors of the first item that fails.
CheckItems(f, items) ==
  IF items = <<>> THEN {}
  ELSE CheckItem(f, Tail(items), value_to_message(f, items[1]))

\* The try block of check_initialized for a message field holding value,
\* message_type being the outcome of mfield.message_type.
CheckMessages(m, f, value, message_type) ==
  IF Failed(message_type) THEN message_type.errs
  ELSE Annotate(CheckItems(f, IF f.repeated THEN value.elems ELSE <<value>>),
                m.type)

\* The body of check_initialized's loop for one field, value being the
\* outcome of getattr(self, name).
CheckValue(m, f, value) ==
  IF Failed(value) THEN value.errs
  ELSE IF value.val = NoneV
  THEN IF f.required THEN {Error("ValidationError")} ELSE {}
  ELSE IF f.kind = "Message"
  THEN CheckMessages(m, f, value.val, Field_type(f))
  ELSE {}

\* The body of check_initialized's loop for one field: the exceptions it
\* may raise (none when the field passes).
CheckField(m, f) == CheckValue(m, f, Field_get(m, f))

\* Message.check_initialized.  The fields are visited in the arbitrary order
\* of the __by_name dict and the first failure is raised, so the call may
\* raise the error of any failing field.
check_initialized(m) ==
  RaiseAny(UNION {CheckField(m, f) : f \in all_fields(m.type)})

\* The try statement of is_initialized around a check_initialized() with
\* outcome r: what the call may do, each a pair of the exception raised
\* (NoError if none) and the value returned.  Only ValidationError is
\* caught.
Caught(r) ==
  IF ~Failed(r) THEN {[err |-> Error("none"), ret |-> BoolV(TRUE)]}
  ELSE {IF e.kind = "ValidationError"
        THEN [err |-> Error("none"), ret |-> BoolV(FALSE)]
        ELSE [err |-> e, ret |-> NoneV] : e \in r.errs}

\* Message.is_initialized
is_initialized(m) == Caught(check_initialized(m))

IsNumber(x) == x.t \in {"int", "float", "bool"}

RECURSIVE PyEq(_, _)
RECURSIVE SeqEq(_, _)
RECURSIVE Message_eq(_, _, _)

\* list.__eq__: same length and equal elements.
SeqEq(xs, ys) ==
  /\ Len(xs) = Len(ys)
  /\ \A i \in 1..Len(xs) : PyEq(xs[i], ys[i])

\* dict.__eq__ on two tag-stores: the same keys with equal values.
DictEq(a, b) ==
  /\ DOMAIN a = DOMAIN b
  /\ \A k \in DOMAIN a : PyEq(a[k], b[k])

\* Python's == on the values a tag-store holds: numbers compare by value
\* whatever their type, text and ASCII bytes by content, enum members of one
\* type by number, lists element by element, messages by Message.__eq__.
PyEq(x, y) ==
  CASE IsNumber(x) /\ IsNumber(y) -> IntOf(x) = IntOf(y)
    [] x.t = "text" /\ y.t = "text" -> x.v = y.v
    [] x.t = "bytes" /\ y.t = "bytes" -> x.v = y.v /\ x.ascii = y.ascii
    [] x.t = "text" /\ y.t = "bytes" -> y.ascii /\ x.v = y.v
    [] x.t = "bytes" /\ y.t = "text" -> x.ascii /\ x.v = y.v
    [] x.t = "enum" /\ y.t = "enum" -> x.enum = y.enum /\ x.number = y.number
    [] x.t \in {"list", "fieldlist"} /\ y.t \in {"list", "fieldlist"} ->
         SeqEq(x.elems, y.elems)
    [] x.t = "tuple" /\ y.t = "tuple" -> SeqEq(x.elems, y.elems)
    [] x.t = "msg" /\ y.t = "msg" -> Message_eq(x, y, FALSE)
    [] x.t = "none" /\ y.t = "none" -> TRUE
    [] OTHER -> FALSE

\* Message.__eq__ comparing what the fields read as, defaults included.
Message_eq_ByReads(self, oth, is_same) ==
  IF is_same THEN TRUE
  ELSE IF self.type # oth.type THEN FALSE
  ELSE \A f \in all_fields(self.type) :
         PyEq(IF Get(self.tags, f.number) = NoneV THEN f.default
              ELSE Get(self.tags, f.number),
              IF Get(oth.tags, f.number) = NoneV THEN f.default
              ELSE Get(oth.tags, f.number))

\* Message.__eq__; is_same says that self and other are one object.
Message_eq(self, oth, is_same) ==
  IF is_same THEN TRUE
  ELSE IF self.type # oth.type THEN FALSE
  ELSE DictEq(self.tags, oth.tags)

\* A set_unrecognized_field that keeps what a key already holds.
set_unrecognized_field_KeepsFirst(m, key, value, variant) ==
  IF ~(variant.t = "enum" /\ variant.enum = "Variant") THEN Raise("TypeError")
  ELSE Ok([m EXCEPT !.unrec = m.unrec @@ (key :> <<value, variant>>)])

\* Message.set_unrecognized_field; variant is checked to be a Variant.
set_unrecognized_field(m, key, value, variant) ==
  IF ~(variant.t = "enum" /\ variant.enum = "Variant") THEN Raise("TypeError")
  ELSE Ok([m EXCEPT !.unrec = (key :> <<value, variant>>) @@ m.unrec])

\* Message.get_unrecognized_field_info: the pair stored under key, else the
\* pair of the defaults passed.
get_unrecognized_field_info(m, key, value_default, variant_default) ==
  IF key \in DOMAIN m.unrec THEN TupleV(m.unrec[key])
  ELSE TupleV(<<value_default, variant_default>>)

----------------------------------------------------------------------------
(* The list operations of FieldList on the list stored for a repeated      *)
(* field.  Each validates with the list's field and then calls the list    *)
(* method with the argument as it was passed.                              *)

\* The field of a stored FieldList.
ListField(l) == field_by_number(l.owner, l.number)

\* list.insert(index, value) for 0 <= index <= len.
InsertAt(xs, index, value) ==
  SubSeq(xs, 1, index) \o <<value>> \o SubSeq(xs, index + 1, Len(xs))

\* xs[i:j] = ys for 0 <= i <= j <= len.
SetSlice(xs, i, j, ys) ==
  SubSeq(xs, 1, i) \o ys \o SubSeq(xs, j + 1, Len(xs))

\* FieldList.append
FieldList_append(l, value) ==
  Then(validate_element(ListField(l), value),
       Ok([l EXCEPT !.elems = Append(l.elems, value)]))

\* FieldList.insert
FieldList_insert(l, index, value) ==
  Then(validate_element(ListField(l), value),
       Ok([l EXCEPT !.elems = InsertAt(l.elems, index, value)]))

\* FieldList.extend
FieldList_extend(l, sequence) ==
  Then(validate(ListField(l), sequence),
       IF ~IsSequence(sequence) THEN Raise("TypeError")
       ELSE Ok([l EXCEPT !.elems = l.elems \o sequence.elems]))

\* FieldList.__setitem__ with an integer index (0-based, in range)
FieldList_setitem(l, index, value) ==
  Then(validate_element(ListField(l), value),
       Ok([l EXCEPT !.elems = [l.elems EXCEPT ![index + 1] = value]]))

\* FieldList.__setslice__ (and __setitem__ with a slice)
FieldList_setslice(l, i, j, sequence) ==
  Then(validate(ListField(l), sequence),
       IF ~IsSequence(sequence) THEN Raise("TypeError")
       ELSE Ok([l EXCEPT !.elems = SetSlice(l.elems, i, j, sequence.elems)]))

----------------------------------------------------------------------------
(* Field descriptors: Field.__init__, Field.__setattr__ and the            *)
(* constructors of MessageField and EnumField.  A descriptor is its class  *)
(* (kind) and its instance dictionary (attrs).                             *)

NoField == [t |-> "nofield"]
FieldObject(kind) == [t |-> "field", kind |-> kind, attrs |-> <<>>]

\* The variables that hold descriptors.
FieldIds == {"f", "g"}

\* constants._POST_INIT_FIELD_ATTRIBUTE_NAMES
POST_INIT_FIELD_ATTRIBUTE_NAMES ==
  {"name", "_message_definition", "_MessageField__type", "_EnumField__type",
   "_EnumField__resolved_default"}

\* The properties without a setter of the field classes: object.__setattr__
\* refuses to assign them.
Properties(kind) ==
  CASE kind = "Message" -> {"default", "type", "message_type"}
    [] kind = "Enum" -> {"default", "type"}
    [] OTHER -> {"default"}

\* Variant members, and VARIANTS and DEFAULT_VARIANT of the field classes.
VariantNumber ==
  [DOUBLE |-> 1, FLOAT |-> 2, INT64 |-> 3, UINT64 |-> 4, INT32 |-> 5,
   BOOL |-> 8, STRING |-> 9, MESSAGE |-> 11, BYTES |-> 12, UINT32 |-> 13,
   ENUM |-> 14, SINT32 |-> 17, SINT64 |-> 18]
VariantV(nm) == EnumV("Variant", nm, VariantNumber[nm])
VARIANTS(kind) ==
  CASE kind = "Integer" ->
         {VariantV(nm) : nm \in {"INT32", "INT64", "UINT32", "UINT64",
                                 "SINT32", "SINT64"}}
    [] kind = "Float" -> {VariantV("FLOAT"), VariantV("DOUBLE")}
    [] kind = "Boolean" -> {VariantV("BOOL")}
    [] kind = "Bytes" -> {VariantV("BYTES")}
    [] kind = "String" -> {VariantV("STRING")}
    [] kind = "Message" -> {VariantV("MESSAGE")}
    [] kind = "Enum" -> {VariantV("ENUM")}
DEFAULT_VARIANT(kind) ==
  CASE kind = "Integer" -> VariantV("INT64")
    [] kind = "Float" -> VariantV("DOUBLE")
    [] kind = "Boolean" -> VariantV("BOOL")
    [] kind = "Bytes" -> VariantV("BYTES")
    [] kind = "String" -> VariantV("STRING")
    [] kind = "Message" -> VariantV("MESSAGE")
    [] kind = "Enum" -> VariantV("ENUM")

\* getattr(self, name, default) on the instance dictionary.
AttrOr(self, name, default) ==
  IF name \in DOMAIN self.attrs THEN self.attrs[name] ELSE default

\* self.__initialized: the class attribute is False.
Field_initialized(self) == AttrOr(self, "_Field__initialized", BoolV(FALSE)).v

\* Field.__setattr__ accepting every name at any time.
Field_setattr_NeverFrozen(self, name, value) ==
  IF name \in Properties(self.kind) THEN Raise("AttributeError")
  ELSE Ok([self EXCEPT !.attrs = Put(self.attrs, name, value)])

\* Field.__setattr__: the post-init names are always assigned; any other
\* name is assigned only before __initialized is set.
Field_setattr(self, name, value) ==
  IF name \in POST_INIT_FIELD_ATTRIBUTE_NAMES
  THEN Ok([self EXCEPT !.attrs = Put(self.attrs, name, value)])
  ELSE IF ~Field_initialized(self)
  THEN IF name \in Properties(self.kind) THEN Raise("AttributeError")
       ELSE Ok([self EXCEPT !.attrs = Put(self.attrs, name, value)])
  ELSE Raise("AttributeError")

\* self.name = value after a statement with outcome r.
Assign(r, name, value) ==
  IF Failed(r) THEN r ELSE Field_setattr(r.val, name, value)

\* The mangled names of self.__type and self.__type_name in MessageField
\* and EnumField.
TypeAttr(self) ==
  IF self.kind = "Message" THEN "_MessageField__type" ELSE "_EnumField__type"
TypeNameAttr(self) ==
  IF self.kind = "Message" THEN "_MessageField__type_name"
  ELSE "_EnumField__type_name"

\* The class self.__type holds (None while unresolved).
ResolvedType(self) == AttrOr(self, TypeAttr(self), NoObject)

\* The descriptor as the validation methods read it: its flags, the class
\* it has resolved or the name it has yet to resolve, and the message class
\* it is bound to.
AsField(self) ==
  [name |-> AttrOr(self, "name", TextV("")).v,
   number |-> IntOf(AttrOr(self, "number", IntV(0))),
   kind |-> self.kind,
   required |-> AttrOr(self, "required", BoolV(FALSE)).v,
   repeated |-> AttrOr(self, "repeated", BoolV(FALSE)).v,
   default |-> AttrOr(self, "_Field__default", NoneV),
   target |-> IF ResolvedType(self) = NoObject THEN ""
              ELSE ClassName(ResolvedType(self)),
   type_name |-> IF self.kind \in {"Message", "Enum"} /\
                    ResolvedType(self) = NoObject
                 THEN AttrOr(self, TypeNameAttr(self), TextV(<<>>)).v
                 ELSE <<>>,
   message_definition |-> AttrOr(self, "_message_definition", TextV("")).v]

\* self.__type(value) in EnumField.validate_default_element, when __type is
\* set and true (a class with members): a value that names no member raises.
CheckMember(type, value) ==
  IF type # NoObject /\ DOMAIN Enums[ClassName(type)].by_name # {}
  THEN Then(EnumCast(ClassName(type), value), Ok(NoneV))
  ELSE Ok(NoneV)

\* Field.validate_default_element, and EnumField.validate_default_element,
\* which checks a string or an integer against the enum type only if that
\* is resolved.
validate_default_element(self, value) ==
  IF self.kind = "Enum" /\ (value.t \in {"text", "bytes"} \/ IsInteger(value))
  THEN CheckMember(ResolvedType(self), value)
  ELSE validate_element(AsField(self), value)

\* Field.validate_default.  A repeated field never gets here with a value:
\* Field.__init__ has refused its default before.
validate_default(self, value) ==
  IF ~AsField(self).repeated THEN validate_default_element(self, value)
  ELSE validate(AsField(self), value)

\* The end of Field.__init__: the default is stored as given and the
\* descriptor is marked initialized.
Finish(self, default) ==
  Assign(Assign(Ok(self), "_Field__default", default),
         "_Field__initialized", BoolV(TRUE))

\* The try statement around validate_default with outcome v: a
\* ValidationError becomes InvalidDefaultError, any other exception
\* propagates.
CheckedDefault(self, default, v) ==
  IF Failed(v)
  THEN RaiseAny({IF e.kind = "ValidationError" THEN Error("InvalidDefaultError")
                 ELSE e : e \in v.errs})
  ELSE Finish(self, default)

\* Field.__init__ after the assignments of number, required, repeated and
\* variant with outcome r.
InitDefault(r, default) ==
  IF Failed(r) THEN r
  ELSE IF default # NoneV
  THEN CheckedDefault(r.val, default, validate_default(r.val, default))
  ELSE Finish(r.val, default)

\* The number checks without the reserved range.
InvalidNumber_NoReservedRange(number) ==
  IF ~(number.t \in {"int", "bool"}) THEN TRUE
  ELSE ~(1 <= IntOf(number) /\ IntOf(number) <= MAX_FIELD_NUMBER)

\* The two checks of the number in Field.__init__: TRUE when one of them
\* raises InvalidNumberError.  isinstance(number, int) holds for a bool.
InvalidNumber(number) ==
  IF ~(number.t \in {"int", "bool"}) THEN TRUE
  ELSE IF ~(1 <= IntOf(number) /\ IntOf(number) <= MAX_FIELD_NUMBER) THEN TRUE
  ELSE FIRST_RESERVED_FIELD_NUMBER <= IntOf(number) /\
       IntOf(number) <= LAST_RESERVED_FIELD_NUMBER

\* Only the check of a default on a repeated field.
FlagsConflict_DefaultOnly(required, repeated, default) ==
  repeated /\ default # NoneV

\* The two checks of the flags in Field.__init__: TRUE when one of them
\* raises FieldDefinitionError.
FlagsConflict(required, repeated, default) ==
  IF repeated /\ required THEN TRUE ELSE repeated /\ default # NoneV

\* Field.__init__(self, number, required, repeated, variant, default)
Field_init(self, number, required, repeated, variant, default) ==
  IF InvalidNumber(number) THEN Raise("InvalidNumberError")
  ELSE IF FlagsConflict(required, repeated, default)
  THEN Raise("FieldDefinitionError")
  ELSE IF (IF variant = NoneV THEN DEFAULT_VARIANT(self.kind) ELSE variant)
          \notin VARIANTS(self.kind)
  THEN Raise("InvalidVariantError")
  ELSE InitDefault(
         Assign(Assign(Assign(Assign(Ok(self), "number", number),
                              "required", BoolV(required)),
                       "repeated", BoolV(repeated)),
                "variant", IF variant = NoneV THEN DEFAULT_VARIANT(self.kind)
                           ELSE variant),
         default)

\* isinstance(x, six.string_types), and x being a class, for an argument
\* that is a value or a class.
IsString(x) == "t" \in DOMAIN x /\ x.t = "text"
IsClassObject(x) == "k" \in DOMAIN x /\ x.k = "class"

\* The start of MessageField.__init__ and of EnumField.__init__: a type
\* given by name is remembered as __type_name with __type None; a class is
\* stored as __type.
WithType(self, type) ==
  IF IsString(type)
  THEN Assign(Field_setattr(self, TypeNameAttr(self), type),
              TypeAttr(self), NoObject)
  ELSE Field_setattr(self, TypeAttr(self), type)

\* super().__init__ of MessageField.__init__ and EnumField.__init__, on the
\* descriptor r holds.
InitTyped(r, number, required, repeated, variant, default) ==
  IF Failed(r) THEN r
  ELSE Field_init(r.val, number, required, repeated, variant, default)

\* MessageField.__init__(self, message_type, number, required, repeated,
\* variant): message_type is a name or a Message subclass.
MessageField_init(message_type, number, required, repeated, variant) ==
  IF ~(IsString(message_type) \/
       (IsClassObject(message_type) /\ IsMessageClass(message_type)))
  THEN Raise("FieldDefinitionError")
  ELSE InitTyped(WithType(FieldObject("Message"), message_type),
                 number, required, repeated, variant, NoneV)

\* EnumField.__init__(self, enum_type, number, **kwargs)
EnumField_init(enum_type, number, required, repeated, variant, default) ==
  IF ~(IsString(enum_type) \/
       (IsClassObject(enum_type) /\ IsEnumClass(enum_type)))
  THEN Raise("FieldDefinitionError")
  ELSE InitTyped(WithType(FieldObject("Enum"), enum_type),
                 number, required, repeated, variant, default)

\* A field declaration: the constructor call of the field class kind.
\* MessageField.__init__ has no default parameter.
NewField(kind, type, number, required, repeated, variant, default) ==
  CASE kind = "Message" ->
         IF default # NoneV THEN Raise("TypeError")
         ELSE MessageField_init(type, number, required, repeated, variant)
    [] kind = "Enum" ->
         EnumField_init(type, number, required, repeated, variant, default)
    [] OTHER ->
         Field_init(FieldObject(kind), number, required, repeated, variant,
                    default)

----------------------------------------------------------------------------
(* Message declarations: _MessageClass.__new__ and __init__.  The class    *)
(* body is the list of its (key, value) items in the order dct.items()     *)
(* yields them; a descriptor in it is a reference to the object a variable *)
(* holds.                                                                  *)

NoClass == [t |-> "noclass"]
FieldRef(id) == [t |-> "ref", id |-> id]
IsFieldRef(value) == "t" \in DOMAIN value /\ value.t = "ref"

\* constants._RESERVED_ATTRIBUTE_NAMES
RESERVED_ATTRIBUTE_NAMES == {"__module__", "__doc__", "__qualname__"}

\* The state of the loop of __new__: the descriptors, the two maps built so
\* far (key and number to the descriptor's variable), the exception raised.
LoopState(flds, names, numbers, err) ==
  [fields |-> flds, by_name |-> names, by_number |-> numbers, err |-> err]

\* field_type.name = key; by_name[key] = field_type;
\* by_number[field_type.number] = field_type, r being the outcome of the
\* assignment of the name.
Place(st, key, id, r) ==
  IF Failed(r) THEN [st EXCEPT !.err = CHOOSE e \in r.errs : TRUE]
  ELSE LoopState([st.fields EXCEPT ![id] = r.val],
                 Put(st.by_name, key, id),
                 Put(st.by_number, IntOf(r.val.attrs["number"]), id),
                 st.err)

\* A declaration that never finds a number taken.
NumberTaken_Never(st, number) == FALSE

\* field_type.number in by_number: True and 1 are the same key.
NumberTaken(st, number) == IntOf(number) \in DOMAIN st.by_number

\* One iteration of the loop over dct.items().
Item(st, key, value) ==
  IF key \in RESERVED_ATTRIBUTE_NAMES THEN st
  ELSE IF IsClassObject(value) /\ IsEnumClass(value) THEN st
  ELSE IF IsClassObject(value) /\ IsMessageClass(value) THEN st
  ELSE IF ~IsFieldRef(value)
  THEN [st EXCEPT !.err = Error("MessageDefinitionError")]
  ELSE IF NumberTaken(st, st.fields[value.id].attrs["number"])
  THEN [st EXCEPT !.err = Error("DuplicateNumberError")]
  ELSE Place(st, key, value.id,
             Field_setattr(st.fields[value.id], "name", TextV(key)))

\* The loop over dct.items(): it ends at the first exception.
RECURSIVE Items(_, _)
Items(st, dct) ==
  IF dct = <<>> \/ st.err # Error("none") THEN st
  ELSE Items(Item(st, Head(dct).key, Head(dct).value), Tail(dct))

\* _MessageClass.__new__(cls, name, bases, dct), on the descriptors flds.
MessageClass_new(flds, bases, dct) ==
  IF bases # "Message"
  THEN LoopState(flds, <<>>, <<>>, Error("MessageDefinitionError"))
  ELSE Items(LoopState(flds, <<>>, <<>>, Error("none")), dct)

\* f._message_definition = weakref.ref(cls) for the descriptors ids.
RECURSIVE Bound(_, _, _)
Bound(flds, ids, name) ==
  IF ids = {} THEN flds
  ELSE Bound([flds EXCEPT ![CHOOSE id \in ids : TRUE] =
                Field_setattr(flds[CHOOSE id \in ids : TRUE],
                              "_message_definition", TextV(name)).val],
             ids \ {CHOOSE id \in ids : TRUE}, name)

\* _MessageClass.__init__(cls, name, bases, dct) on the outcome st of
\* __new__: every field of the class is bound to it.
MessageClass_init(st, name) ==
  IF st.err # Error("none") THEN st
  ELSE [st EXCEPT !.fields =
          Bound(st.fields, {st.by_name[k] : k \in DOMAIN st.by_name}, name)]

\* The class statement: class name(bases): dct
ClassStatement(flds, name, bases, dct) ==
  MessageClass_init(MessageClass_new(flds, bases, dct), name)

\* The classes of the exceptions of a declaration and the class each one
\* derives from.
ErrorBase ==
  [Error |-> "Exception", EnumDefinitionError |-> "Error",
   FieldDefinitionError |-> "Error", InvalidVariantError |-> "FieldDefinitionError",
   InvalidDefaultError |-> "FieldDefinitionError",
   InvalidNumberError |-> "FieldDefinitionError",
   MessageDefinitionError |-> "Error", DuplicateNumberError |-> "Error",
   DefinitionNotFoundError |-> "Error", EncodeError |-> "Error",
   ValidationError |-> "Error"]

\* issubclass(kind, base): what a handler for base catches.
RECURSIVE IsA(_, _)
IsA(kind, base) ==
  IF kind = base THEN TRUE
  ELSE IF kind \notin DOMAIN ErrorBase THEN FALSE
  ELSE IsA(ErrorBase[kind], base)

----------------------------------------------------------------------------
(* Inputs: the values callers pass to the operations.                      *)

\* kwargs of a constructor call: a dict from names to values.
Kw1(a, x) == (a :> x)
Kw2(a, x, b, y) == (a :> x) @@ (b :> y)
Kw3(a, x, b, y, c, z) == (a :> x) @@ (b :> y) @@ (c :> z)

\* Instances of each message type that callers hand to message fields: a
\* complete Lot and one without quantity; a HasDefault with nothing assigned
\* and one with level assigned; a complete Order, an Order holding an
\* incomplete Lot, and an Order without trade_type.
InputInstances(T) ==
  CASE T = "Lot" ->
         {Message_init("Lot", Kw2("price", IntV(10), "quantity", IntV(10))).val,
          Message_init("Lot", Kw1("price", IntV(10))).val}
    [] T = "HasDefault" ->
         {Message_init("HasDefault", EmptyDict).val,
          Message_init("HasDefault", Kw1("level", IntV(10))).val}
    [] T = "Order" ->
         {Message_init("Order", Kw3("symbol", TextV("dv"),
                                    "total_quantity", IntV(10),
                                    "trade_type", Member("TradeType", "BUY"))).val,
          Message_init("Order", Kw3("symbol", TextV("dv"),
                                    "total_quantity", IntV(10),
                                    "trade_type", Member("TradeType", "BUY")) @@
                                Kw1("lots", ListV(<<Message_init("Lot",
                                       Kw1("price", IntV(10))).val>>))).val,
          Message_init("Order", Kw2("symbol", TextV("dv"),
                                    "total_quantity", IntV(10))).val}
    [] OTHER -> {Message_init(T, EmptyDict).val}

\* The type whose values are offered to a message or enum field: the
\* field's type or, when its name does not resolve, Lot.
InputType(type) == IF Failed(type) THEN "Lot" ELSE type.val

\* Single values offered to a field (as a singular value or as an element of
\* a repeated one): values of the field's type, values of other types, None.
ElementInputs(f) ==
  CASE f.kind = "Integer" -> {IntV(10), TextV("dv"), NoneV}
    [] f.kind = "Float" -> {FloatV(5), IntV(5), TextV("dv"), NoneV}
    [] f.kind = "String" -> {TextV("dv"), BytesV("raw", FALSE), NoneV}
    [] f.kind = "Email" ->
         {TextV(<<"a", "@", "a", ".", "a", "a">>), TextV(<<"a">>), NoneV}
    [] f.kind = "Enum" ->
         {Member(InputType(Field_type(f)), "BUY"), TextV("BUY"), NoneV}
    [] f.kind = "Message" ->
         InputInstances(InputType(Field_type(f))) \cup
         {DictV(Kw2("price", IntV(10), "quantity", IntV(10))),
          DictV(Kw1("price", TextV("dv"))), NoneV}

\* All sequences over S of length at most n.
SeqsUpTo(S, n) == UNION {[1..k -> S] : k \in 0..n}

\* Values offered to a repeated field, or to extend and slice assignment:
\* lists and tuples of element inputs, a bare string, None.
SequenceInputs(f, n) ==
  {ListV(xs) : xs \in SeqsUpTo(ElementInputs(f), n)} \cup
  {TupleV(xs) : xs \in SeqsUpTo(ElementInputs(f), IF n < 1 THEN n ELSE 1)} \cup
  {TextV("dv"), NoneV}

\* Values offered in an assignment to field f.
FieldInputs(f) ==
  IF f.repeated THEN SequenceInputs(f, MaxLen) ELSE ElementInputs(f)

\* Names used in assignments: the declared ones, one that is not, and one
\* that is not but starts with _Message__.
NameInputs(T) == DOMAIN by_name[T] \cup {"bogus"} \cup PrivateNames

\* Values offered under a name.
NamedInputs(T, nm) ==
  IF nm \in DOMAIN by_name[T] THEN FieldInputs(by_name[T][nm]) ELSE {IntV(10)}

\* All kwargs dicts over the given names with at most k keywords.
RECURSIVE KwargsOver(_, _, _)
KwargsOver(T, names, k) ==
  IF names = {} \/ k = 0 THEN {EmptyDict}
  ELSE LET nm == CHOOSE x \in names : TRUE
       IN KwargsOver(T, names \ {nm}, k) \cup
          {(nm :> v) @@ kw : v \in NamedInputs(T, nm),
                             kw \in KwargsOver(T, names \ {nm}, k - 1)}


\* The arguments of field declarations: every field class; for the
\* reference fields a class of the right kind, one of the wrong kind and a
\* name; numbers around the limits of the valid range and of the reserved
\* range, and values that are not integers; both flags; no variant, the
\* variant of the class and one of another; defaults of several types.
KindInputs ==
  {"Integer", "Float", "Boolean", "Bytes", "String", "Message", "Enum"}
TypeInputs(kind) ==
  CASE kind = "Message" ->
         {ClassObject(<<"test", "Lot">>), ClassObject(<<"test", "TradeType">>),
          TextV(<<"Lot">>)}
    [] kind = "Enum" ->
         {ClassObject(<<"test", "TradeType">>), ClassObject(<<"test", "Lot">>),
          TextV(<<"TradeType">>)}
    [] OTHER -> {NoObject}
NumberInputs ==
  {IntV(n) : n \in {-1, 0, 1, FIRST_RESERVED_FIELD_NUMBER - 1,
                    FIRST_RESERVED_FIELD_NUMBER, 19500,
                    LAST_RESERVED_FIELD_NUMBER, LAST_RESERVED_FIELD_NUMBER + 1,
                    MAX_FIELD_NUMBER, MAX_FIELD_NUMBER + 1}} \cup
  {BoolV(TRUE), BoolV(FALSE), TextV("1"), FloatV(1), NoneV}
FieldVariantInputs(kind) ==
  {NoneV, DEFAULT_VARIANT(kind), VariantV("UINT32")}
FieldDefaultInputs ==
  {NoneV, IntV(1), IntV(99), TextV("BUY"), TextV("bogus"), BoolV(TRUE),
   FloatV(5), Member("TradeType", "SELL")}
FieldArgs ==
  UNION {{[kind |-> kind, type |-> type, number |-> number,
           required |-> required, repeated |-> repeated,
           variant |-> variant, default |-> default] :
            type \in TypeInputs(kind), number \in NumberInputs,
            required \in BOOLEAN, repeated \in BOOLEAN,
            variant \in FieldVariantInputs(kind),
            default \in FieldDefaultInputs} :
         kind \in KindInputs}

\* The declarations of the fields that message declarations use: integer
\* fields numbered 1 and 2.
SimpleFieldArgs ==
  {[kind |-> "Integer", type |-> NoObject, number |-> IntV(n),
    required |-> FALSE, repeated |-> FALSE, variant |-> NoneV,
    default |-> NoneV] : n \in {1, 2}}

\* The attributes assigned on a descriptor, with the value each is given.
AttrValue ==
  [number |-> IntV(7), required |-> BoolV(TRUE), repeated |-> BoolV(TRUE),
   variant |-> VariantV("UINT32"), default |-> IntV(7),
   _Field__default |-> IntV(7), _Field__initialized |-> BoolV(FALSE),
   bogus |-> IntV(7), name |-> TextV("x"),
   _message_definition |-> TextV("X"),
   _EnumField__resolved_default |-> IntV(7)]
FrozenAttrInputs ==
  {"number", "required", "repeated", "variant", "default", "_Field__default",
   "_Field__initialized", "bogus", "name", "_EnumField__resolved_default"}
DeferredAttrInputs == {"name", "_message_definition", "number"}

\* The class statements: the names of the classes, the keys of their
\* bodies, and the bodies over the descriptors declared so far, in every
\* order of their items.
ClassNames == {"M", "N"}
KeyInputs == {"a", "b", "__doc__"}
ValueInputs(flds) ==
  {FieldRef(id) : id \in {i \in FieldIds : flds[i] # NoField}} \cup {IntV(5)}
BodyInputs(flds) ==
  {<<>>} \cup
  {<<[key |-> k, value |-> v]>> : k \in KeyInputs, v \in ValueInputs(flds)} \cup
  {<<[key |-> k1, value |-> v1], [key |-> k2, value |-> v2]>> :
     <<k1, k2>> \in {p \in KeyInputs \X KeyInputs : p[1] # p[2]},
     v1 \in ValueInputs(flds), v2 \in ValueInputs(flds)}
BasesInputs == {"Message", "Lot"}

----------------------------------------------------------------------------
(* Actions on the message instance msg.                                    *)

NoError == Error("none")

\* The record of an operation: its name, the field name, the argument, the
\* list indices, the exception raised (NoError if none), the value returned.
Last(op, nm, arg, idx, err, ret) ==
  [op |-> op, name |-> nm, arg |-> arg, idx |-> idx, err |-> err, ret |-> ret]

\* A call on msg that empties the tag-store when it raises.
Mutate_ClearsOnFailure(op, nm, arg, idx, r) ==
  IF Failed(r)
  THEN /\ \E e \in r.errs : last' = Last(op, nm, arg, idx, e, NoneV)
       /\ msg' = [msg EXCEPT !.tags = EmptyDict]
  ELSE /\ last' = Last(op, nm, arg, idx, NoError, NoneV)
       /\ msg' = r.val

\* A mutating call with outcome r on msg: it raises one of r's errors and
\* leaves msg as it was, or completes with the new instance r.val.
Mutate(op, nm, arg, idx, r) ==
  IF Failed(r)
  THEN /\ \E e \in r.errs : last' = Last(op, nm, arg, idx, e, NoneV)
       /\ msg' = msg
  ELSE /\ last' = Last(op, nm, arg, idx, NoError, NoneV)
       /\ msg' = r.val

\* A call on the list stored for the repeated field nm of msg.
MutateList(op, nm, arg, idx, r) ==
  LET number == by_name[msg.type][nm].number
  IN Mutate(op, nm, arg, idx,
            IF Failed(r) THEN r
            ELSE Ok([msg EXCEPT !.tags = Put(msg.tags, number, r.val)]))

\* The repeated fields of msg's type, by name.
RepeatedNames == {nm \in DOMAIN by_name[msg.type] : by_name[msg.type][nm].repeated}

\* The list stored for the repeated field nm.
Stored(nm) == msg.tags[by_name[msg.type][nm].number]

\* The message types the general runs construct; instances of Contact are
\* constructed in the runs that assign email addresses.
ConstructedTypes == MessageTypes \ {"Contact"}

\* msg = T(**kwargs) for a type among types, with at most k keywords, the
\* first call of a run.
ConstructAmong(types, k) ==
  /\ msg = NoMsg
  /\ last.op = "start"
  /\ \E T \in types : \E kwargs \in KwargsOver(T, NameInputs(T), k) :
       LET r == Message_init(T, kwargs)
       IN IF Failed(r)
          THEN /\ \E e \in r.errs :
                    last' = Last("init", T, DictV(kwargs), <<>>, e, NoneV)
               /\ msg' = msg
          ELSE /\ last' = Last("init", T, DictV(kwargs), <<>>, NoError, NoneV)
               /\ msg' = r.val
  /\ UNCHANGED <<other, enum, calls, namespace, readers, fields, classes>>

\* msg = T(**kwargs) with at most k keywords.
ConstructWith(k) == ConstructAmong(ConstructedTypes, k)

\* msg = Contact()
ConstructContact == ConstructAmong({"Contact"}, 0)

\* msg = T(**kwargs)
Construct == ConstructWith(MaxKwargs)

\* msg = T(**kwargs), before operations on the stored lists.
ConstructForList == ConstructWith(MaxListKwargs)

\* msg.nm = value
SetAttr ==
  /\ msg # NoMsg
  /\ \E nm \in NameInputs(msg.type) : \E value \in NamedInputs(msg.type, nm) :
       Mutate("setattr", nm, value, <<>>, Message_setattr(msg, nm, value))
  /\ UNCHANGED <<other, enum, calls, namespace, readers, fields, classes>>

\* msg.reset(nm)
Reset ==
  /\ msg # NoMsg
  /\ \E nm \in NameInputs(msg.type) :
       Mutate("reset", nm, NoneV, <<>>, reset(msg, nm))
  /\ UNCHANGED <<other, enum, calls, namespace, readers, fields, classes>>

\* msg.nm.append(value)
ListAppend ==
  /\ msg # NoMsg
  /\ \E nm \in RepeatedNames :
       /\ Len(Stored(nm).elems) < MaxLen
       /\ \E value \in ElementInputs(by_name[msg.type][nm]) :
            MutateList("append", nm, value, <<>>,
                       FieldList_append(Stored(nm), value))
  /\ UNCHANGED <<other, enum, calls, namespace, readers, fields, classes>>

\* msg.nm.insert(index, value)
ListInsert ==
  /\ msg # NoMsg
  /\ \E nm \in RepeatedNames :
       /\ Len(Stored(nm).elems) < MaxLen
       /\ \E index \in 0..Len(Stored(nm).elems) :
          \E value \in ElementInputs(by_name[msg.type][nm]) :
            MutateList("insert", nm, value, <<index>>,
                       FieldList_insert(Stored(nm), index, value))
  /\ UNCHANGED <<other, enum, calls, namespace, readers, fields, classes>>

\* msg.nm.extend(sequence)
ListExtend ==
  /\ msg # NoMsg
  /\ \E nm \in RepeatedNames :
     \E sequence \in SequenceInputs(by_name[msg.type][nm],
                                    MaxLen - Len(Stored(nm).elems)) :
       MutateList("extend", nm, sequence, <<>>,
                  FieldList_extend(Stored(nm), sequence))
  /\ UNCHANGED <<other, enum, calls, namespace, readers, fields, classes>>

\* msg.nm[index] = value
ListSetItem ==
  /\ msg # NoMsg
  /\ \E nm \in RepeatedNames :
     \E index \in 0..(Len(Stored(nm).elems) - 1) :
     \E value \in ElementInputs(by_name[msg.type][nm]) :
       MutateList("setitem", nm, value, <<index>>,
                  FieldList_setitem(Stored(nm), index, value))
  /\ UNCHANGED <<other, enum, calls, namespace, readers, fields, classes>>

\* The longest sequence assigned to a slice when n elements stay.
SliceLen(n) == IF MaxLen - n < MaxSlice THEN MaxLen - n ELSE MaxSlice

\* msg.nm[i:j] = sequence
ListSetSlice ==
  /\ msg # NoMsg
  /\ \E nm \in RepeatedNames :
     \E i \in 0..Len(Stored(nm).elems) : \E j \in i..Len(Stored(nm).elems) :
     \E sequence \in SequenceInputs(by_name[msg.type][nm],
                                    SliceLen(Len(Stored(nm).elems) - (j - i))) :
       MutateList("setslice", nm, sequence, <<i, j>>,
                  FieldList_setslice(Stored(nm), i, j, sequence))
  /\ UNCHANGED <<other, enum, calls, namespace, readers, fields, classes>>

\* What a call with outcome r may do: each a pair of the exception raised
\* (NoError if none) and the value returned.
Results(r) ==
  IF Failed(r) THEN {[err |-> e, ret |-> NoneV] : e \in r.errs}
  ELSE {[err |-> NoError, ret |-> r.val]}

\* A call on msg that empties the instance's tag-store.
Observe_ClearsTags(op, nm, results) ==
  /\ \E o \in results : last' = Last(op, nm, NoneV, <<>>, o.err, o.ret)
  /\ msg' = [msg EXCEPT !.tags = EmptyDict]

\* A call on msg that assigns nothing (check_initialized, is_initialized,
\* a read of a field): it raises or returns one of results, and the
\* instance, its stores and the instances it holds stay as they are.
Observe(op, nm, results) ==
  /\ \E o \in results : last' = Last(op, nm, NoneV, <<>>, o.err, o.ret)
  /\ msg' = msg

\* msg.check_initialized()
CheckInitialized ==
  /\ msg # NoMsg
  /\ Observe("check_initialized", "", Results(check_initialized(msg)))
  /\ UNCHANGED <<other, enum, calls, namespace, readers, fields, classes>>

\* msg.is_initialized()
IsInitialized ==
  /\ msg # NoMsg
  /\ Observe("is_initialized", "", is_initialized(msg))
  /\ UNCHANGED <<other, enum, calls, namespace, readers, fields, classes>>

\* msg.nm (a read of a declared field)
GetAttr ==
  /\ msg # NoMsg
  /\ \E nm \in DOMAIN by_name[msg.type] :
       Observe("getattr", nm, Results(Field_get(msg, by_name[msg.type][nm])))
  /\ UNCHANGED <<other, enum, calls, namespace, readers, fields, classes>>

\* The threads that read a descriptor, and a thread that is not in a call:
\* the property being read (what), the position in its code (pc), the local
\* variables message_type / enum_type (found) and resolved_default (value),
\* and what the call returned or raised.
MaxThreads == 2
Threads == 1..MaxThreads
Idle ==
  [pc |-> "idle", what |-> "", found |-> NoObject, value |-> NoneV,
   err |-> NoError, ret |-> NoneV]

Init ==
  /\ msg = NoMsg
  /\ other = NoMsg
  /\ enum = NoEnum
  /\ calls = <<>>
  /\ namespace = Definitions
  /\ fields = [id \in FieldIds |-> NoField]
  /\ classes = <<>>
  /\ readers = [t \in Threads |-> Idle]
  /\ last = Last("start", "", NoneV, <<>>, NoError, NoneV)

Next ==
  \/ Construct
  \/ SetAttr
  \/ Reset
  \/ CheckInitialized
  \/ IsInitialized
  \/ GetAttr

\* Construction, assignment, reset, reads and the completeness check.
Spec == Init /\ [][Next]_vars

NextList ==
  \/ ConstructForList
  \/ ListAppend
  \/ ListInsert
  \/ ListExtend
  \/ ListSetItem
  \/ ListSetSlice
  \/ CheckInitialized
  \/ IsInitialized

\* Construction followed by operations on the stored lists of repeated
\* fields, and the completeness check.
SpecList == Init /\ [][NextList]_vars

----------------------------------------------------------------------------
(* Comparison of msg with a second instance.                               *)

\* Constructor calls that build the second instance: at most one keyword.
OtherKwargs(T) == KwargsOver(T, DOMAIN by_name[T], 1)

\* other = T(**kwargs), for the calls that succeed.
ConstructOther ==
  /\ msg # NoMsg
  /\ other = NoMsg
  /\ \E T \in ConstructedTypes : \E kwargs \in OtherKwargs(T) :
       /\ ~Failed(Message_init(T, kwargs))
       /\ other' = Message_init(T, kwargs).val
       /\ last' = Last("init_other", T, DictV(kwargs), <<>>, NoError, NoneV)
  /\ UNCHANGED <<msg, enum, calls, namespace, readers, fields, classes>>

\* The variants passed to set_unrecognized_field: a member of Variant, and
\* a string.
VariantInputs == {EnumV("Variant", "INT64", 3), TextV("dv")}

\* msg.set_unrecognized_field(key, value, variant), once per instance.
SetUnrecognized ==
  /\ msg # NoMsg
  /\ msg.unrec = EmptyDict
  /\ last.op # "set_unrecognized_field"
  /\ \E variant \in VariantInputs :
       Mutate("set_unrecognized_field", "x", variant, <<>>,
              set_unrecognized_field(msg, "x", IntV(10), variant))
  /\ UNCHANGED <<other, enum, calls, namespace, readers, fields, classes>>

\* msg == other, and msg == msg.
Compare ==
  /\ msg # NoMsg
  /\ \/ /\ other # NoMsg
        /\ last' = Last("eq", "other", NoneV, <<>>, NoError,
                        BoolV(Message_eq(msg, other, FALSE)))
     \/ last' = Last("eq", "self", NoneV, <<>>, NoError,
                     BoolV(Message_eq(msg, msg, TRUE)))
  /\ UNCHANGED <<msg, other, enum, calls, namespace, readers, fields, classes>>

\* The keys, values and defaults passed to set_unrecognized_field and
\* get_unrecognized_field_info.
KeyInputs_Unrecognized == {"x", "price"}
ValueInputs_Unrecognized == {IntV(10), TextV("dv")}
DefaultPairs == {<<NoneV, NoneV>>, <<IntV(0), EnumV("Variant", "BOOL", 8)>>}

\* msg.set_unrecognized_field(key, value, variant)
StoreUnrecognized ==
  /\ msg # NoMsg
  /\ \E key \in KeyInputs_Unrecognized : \E value \in ValueInputs_Unrecognized :
       \E variant \in VariantInputs :
         Mutate("set_unrecognized_field", key, TupleV(<<value, variant>>), <<>>,
                set_unrecognized_field(msg, key, value, variant))
  /\ UNCHANGED <<other, enum, calls, namespace, readers, fields, classes>>

\* msg.get_unrecognized_field_info(key, value_default, variant_default)
GetUnrecognized ==
  /\ msg # NoMsg
  /\ \E key \in KeyInputs_Unrecognized : \E d \in DefaultPairs :
       /\ last' = Last("get_unrecognized_field_info", key, TupleV(d), <<>>,
                       NoError,
                       get_unrecognized_field_info(msg, key, d[1], d[2]))
       /\ msg' = msg
  /\ UNCHANGED <<other, enum, calls, namespace, readers, fields, classes>>

\* The strings offered to the email fields: every string over Alphabet of
\* at most MaxEmailLen characters.
EmailStrings == UNION {[1..n -> Alphabet] : n \in 0..MaxEmailLen}

\* msg.email = s and msg.emails = [s], the first assignment to an instance
\* of Contact: Message.__setattr__ finds the name among the fields and the
\* __set__ of the email field runs.
SetEmail ==
  /\ msg # NoMsg
  /\ msg.type = "Contact"
  /\ last.op = "init"
  /\ \E s \in EmailStrings :
       \/ Mutate("setattr", "email", TextV(s), <<>>,
                 EmailField_set(msg, by_name["Contact"]["email"], TextV(s)))
       \/ Mutate("setattr", "emails", ListV(<<TextV(s)>>), <<>>,
                 EmailField_set(msg, by_name["Contact"]["emails"],
                                ListV(<<TextV(s)>>)))
  /\ UNCHANGED <<other, enum, calls, namespace, readers, fields, classes>>

\* The parts of the names handed to find_definition, and the names:
\* name.split('.') of a dotted name of at most MaxNameLen parts, with or
\* without a leading dot (the empty name splits into one empty part).
NameParts == {"Sibling", "Outer", "Inner", "Color", "Top", "pkg", "sub"}
FindNames ==
  UNION {[1..n -> NameParts] : n \in 1..MaxNameLen} \cup
  {<<"">> \o parts : parts \in UNION {[1..n -> NameParts] : n \in 0..MaxNameLen}}

\* The objects handed to find_definition as relative_to: None, the modules,
\* message classes at every depth of nesting and an enum class.
FindAnchors ==
  {NoObject} \cup {ModuleObject(m) : m \in Modules} \cup
  {ClassObject(p) : p \in DOMAIN NestedDefinitions \cup {<<"test", "Lot">>}}

\* The state of a call of find_definition(name, relative_to) inside its
\* while loop: the arguments and the current value of relative_to.
Searching(name_path, anchor, relative_to) ==
  Last("find_definition.while", "", [name |-> name_path, anchor |-> anchor],
       <<relative_to>>, NoError, NoneV)

\* The end of a call of find_definition with outcome r.
Returned(arg, r) ==
  IF Failed(r)
  THEN \E e \in r.errs : last' = Last("find_definition", "", arg, <<>>, e, NoneV)
  ELSE last' = Last("find_definition", "", arg, <<>>, NoError, r.val)

\* find_definition(name, relative_to) up to its while loop, the first call
\* of a run: the check of relative_to and the split of the name.
FindCall ==
  /\ last.op = "start"
  /\ \E name_path \in FindNames : \E anchor \in FindAnchors :
       IF ~(anchor = NoObject \/ anchor.k = "module" \/ IsMessageClass(anchor))
       THEN Returned([name |-> name_path, anchor |-> anchor], Raise("TypeError"))
       ELSE last' = Searching(name_path, anchor,
                              IF name_path[1] = "" THEN NoObject ELSE anchor)
  /\ UNCHANGED <<msg, other, enum, calls, namespace, readers, fields, classes>>

\* The name_path of the call in progress: the parts of the name after a
\* leading empty one.
CurrentPath ==
  IF last.arg.name[1] = "" THEN Tail(last.arg.name) ELSE last.arg.name

\* The end of an iteration that found no definition, widened being the
\* next relative_to: the loop goes on, or the error of the importer ends
\* the call.
Continue(widened) ==
  IF Failed(widened) THEN Returned(last.arg, widened)
  ELSE last' = Searching(last.arg.name, last.arg.anchor, widened.val)

\* The body of the while loop after search_path returned found.
Iterate(relative_to, found) ==
  IF found.k = "class" THEN Returned(last.arg, Ok(found))
  ELSE IF relative_to = NoObject
  THEN Returned(last.arg, Raise("DefinitionNotFoundError"))
  ELSE Continue(Widen(relative_to, message_definition(relative_to)))

\* One iteration of the while loop of find_definition.
FindIterate ==
  /\ last.op = "find_definition.while"
  /\ Iterate(last.idx[1], search_path(last.idx[1], CurrentPath))
  /\ UNCHANGED <<msg, other, enum, calls, namespace, readers, fields, classes>>

NextFind ==
  \/ FindCall
  \/ FindIterate

\* Calls of find_definition, one iteration of its loop at a time.
SpecFind == Init /\ [][NextFind]_vars

\* The loop of a call goes on as long as it can: a call in progress is not
\* suspended by anything.
SpecFindFair == SpecFind /\ WF_vars(FindIterate)

NextAssign ==
  \/ ConstructForList
  \/ SetAttr
  \/ ListExtend

\* Construction followed by assignments to the fields and by extensions of
\* the stored lists.
SpecAssign == Init /\ [][NextAssign]_vars

NextEmail ==
  \/ ConstructContact
  \/ SetEmail
  \/ GetAttr

\* Construction of an instance and assignments to its email fields.
SpecEmail == Init /\ [][NextEmail]_vars

NextUnrecognized ==
  \/ ConstructForList
  \/ StoreUnrecognized
  \/ GetUnrecognized

\* Construction of an instance and calls that store and read its
\* unrecognized fields.
SpecUnrecognized == Init /\ [][NextUnrecognized]_vars

NextEq ==
  \/ Construct
  \/ ConstructOther
  \/ SetUnrecognized
  \/ Compare

\* Construction of two instances and their comparison.
SpecEq == Init /\ [][NextEq]_vars

----------------------------------------------------------------------------
(* Actions on the enum type enum.                                          *)

\* The attribute names used in class bodies of enum types.
MemberNames == {"BUY", "SELL", "SHORT", "CALL"}

\* The values given to attributes: integers in and at the ends of the
\* allowed range, integers outside it, a bool (an int in Python, equal to
\* 1) and a string.
MemberValues ==
  {IntV(0), IntV(1), IntV(MAX_ENUM_VALUE), IntV(-1), IntV(MAX_ENUM_VALUE + 1),
   BoolV(TRUE), TextV("1")}

\* The class bodies: dct.items() in each order the dict may yield them, the
\* attribute names being distinct.
ClassBodies ==
  {items \in UNION {[1..k -> MemberNames \X MemberValues] : k \in 0..MaxMembers} :
     \A i, j \in 1..Len(items) : i # j => items[i][1] # items[j][1]}

\* What callers pass to set_default: the numbers and names of the members,
\* a number and a name of no member.
DefaultInputs(e) ==
  {IntV(n) : n \in DOMAIN e.by_number \cup {7}} \cup
  {TextV(nm) : nm \in DOMAIN e.by_name \cup {"bogus"}}

\* class enum(Enum): with the class body items.
DeclareEnum ==
  /\ enum = NoEnum
  /\ last.op = "start"
  /\ \E items \in ClassBodies :
       /\ \/ /\ Failed(EnumClass_init(items))
             /\ \E e \in EnumClass_init(items).errs :
                  last' = Last("declare", "", [t |-> "items", items |-> items],
                               <<>>, e, NoneV)
             /\ enum' = enum
          \/ /\ ~Failed(EnumClass_init(items))
             /\ last' = Last("declare", "", [t |-> "items", items |-> items],
                             <<>>, NoError, NoneV)
             /\ enum' = EnumClass_init(items).val
  /\ UNCHANGED <<msg, other, calls, namespace, readers, fields, classes>>

\* enum.set_default(name_or_number)
SetDefault ==
  /\ enum # NoEnum
  /\ Len(calls) < MaxCalls
  /\ \E name_or_number \in DefaultInputs(enum) :
       \/ /\ Failed(set_default(enum, name_or_number))
          /\ \E e \in set_default(enum, name_or_number).errs :
               last' = Last("set_default", "", name_or_number, <<>>, e, NoneV)
          /\ enum' = enum
       \/ /\ ~Failed(set_default(enum, name_or_number))
          /\ last' = Last("set_default", "", name_or_number, <<>>, NoError, NoneV)
          /\ enum' = set_default(enum, name_or_number).val
  /\ calls' = Append(calls, [arg |-> last'.arg, err |-> last'.err,
                             before |-> enum.DEFAULT, after |-> enum'.DEFAULT])
  /\ UNCHANGED <<msg, other, namespace, readers, fields, classes>>

NextEnum ==
  \/ DeclareEnum
  \/ SetDefault

\* Declaration of an enum type followed by set_default calls on it.
SpecEnum == Init /\ [][NextEnum]_vars

----------------------------------------------------------------------------
(* Actions on the field descriptors and the message classes.               *)

\* id = kind(...) with outcome r: the variable is bound when the
\* constructor returns.
Declared(id, a, r) ==
  IF Failed(r)
  THEN /\ \E e \in r.errs : last' = Last("Field", id, a, <<>>, e, NoneV)
       /\ fields' = fields
  ELSE /\ last' = Last("Field", id, a, <<>>, NoError, NoneV)
       /\ fields' = [fields EXCEPT ![id] = r.val]

\* id = kind(type, number, required=, repeated=, variant=, default=) with
\* the arguments drawn from args.
DeclareFieldFrom(id, args) ==
  /\ fields[id] = NoField
  /\ \E a \in args :
       Declared(id, a, NewField(a.kind, a.type, a.number, a.required,
                                a.repeated, a.variant, a.default))
  /\ UNCHANGED <<msg, other, enum, calls, namespace, readers, classes>>

\* f = kind(...), the first statement of a run.
DeclareField ==
  /\ last.op = "start"
  /\ DeclareFieldFrom("f", FieldArgs)

\* id = IntegerField(number)
DeclareSimpleField == \E id \in FieldIds : DeclareFieldFrom(id, SimpleFieldArgs)

\* id.name = value with outcome r.
AssignedAttr(id, name, value, r) ==
  IF Failed(r)
  THEN /\ \E e \in r.errs :
            last' = Last("Field.setattr", name, value, <<id>>, e, NoneV)
       /\ fields' = fields
  ELSE /\ last' = Last("Field.setattr", name, value, <<id>>, NoError, NoneV)
       /\ fields' = [fields EXCEPT ![id] = r.val]

\* id.name = value for a name among names.
SetFieldAttrAmong(ids, names) ==
  /\ \E id \in ids : \E name \in names :
       /\ fields[id] # NoField
       /\ AssignedAttr(id, name, AttrValue[name],
                       Field_setattr(fields[id], name, AttrValue[name]))
  /\ UNCHANGED <<msg, other, enum, calls, namespace, readers, classes>>

\* f.name = value for an initialization-time attribute or a deferred one.
SetFrozenAttr == SetFieldAttrAmong({"f"}, FrozenAttrInputs)

\* f.name = value for the name, the owning message and the number.
SetDeferredAttr == SetFieldAttrAmong({"f"}, DeferredAttrInputs)

\* The class statement with outcome st: the assignments made to the
\* descriptors before an exception stay; the class exists only without one.
DeclaredClass(name, bases, dct, st) ==
  /\ last' = Last("class", name, [bases |-> bases, dct |-> dct], <<>>,
                  st.err, NoneV)
  /\ fields' = st.fields
  /\ classes' = Put(classes, name,
                    IF st.err # NoError THEN NoClass
                    ELSE [by_name |-> st.by_name, by_number |-> st.by_number])

\* class name(bases): dct, each class statement executed once.
DeclareMessage ==
  /\ \E name \in ClassNames \ DOMAIN classes :
       /\ name = "N" => "M" \in DOMAIN classes
       /\ \E bases \in BasesInputs : \E dct \in BodyInputs(fields) :
            DeclaredClass(name, bases, dct,
                          ClassStatement(fields, name, bases, dct))
  /\ UNCHANGED <<msg, other, enum, calls, namespace, readers>>

NextField ==
  \/ DeclareField
  \/ SetFrozenAttr

\* Field declarations and assignments to the attributes of the descriptor.
SpecField == Init /\ [][NextField]_vars

NextMessage ==
  \/ DeclareSimpleField
  \/ SetDeferredAttr
  \/ DeclareMessage

\* Field declarations, assignments to the deferred attributes and message
\* declarations that use the descriptors.
SpecMessage == Init /\ [][NextMessage]_vars

----------------------------------------------------------------------------
(* Enum declaration and the default of an enum type.                       *)

\* The class body is acceptable: every value is a Python integer in
\* 0..MAX_ENUM_VALUE and no two attributes have the same number.
GoodClassBody(items) ==
  /\ \A i \in 1..Len(items) :
       /\ items[i][2].t \in {"int", "bool"}
       /\ IntOf(items[i][2]) >= 0
       /\ IntOf(items[i][2]) <= MAX_ENUM_VALUE
  /\ \A i, j \in 1..Len(items) :
       i # j => IntOf(items[i][2]) # IntOf(items[j][2])

\* C5: an enum declaration succeeds exactly when every member value is an
\* integer in [0, 2^29-1] and no two members share a number, and otherwise
\* fails with EnumDefinitionError; in a declared enum type each declared
\* name is found by name, each declared number by number, and the two
\* lookups give the same member.
C5_DeclarationChecked ==
  /\ last.op = "declare" =>
       /\ (last.err = NoError) <=> GoodClassBody(last.arg.items)
       /\ last.err # NoError =>
            last.err.kind = "EnumDefinitionError" /\ enum = NoEnum
       /\ last.err = NoError =>
            /\ DOMAIN enum.by_name =
                 {last.arg.items[i][1] : i \in 1..Len(last.arg.items)}
            /\ DOMAIN enum.by_number =
                 {IntOf(last.arg.items[i][2]) : i \in 1..Len(last.arg.items)}
            /\ \A i \in 1..Len(last.arg.items) :
                 lookup_by_name(enum, last.arg.items[i][1]).number =
                   IntOf(last.arg.items[i][2])
  /\ enum # NoEnum =>
       /\ \A n \in DOMAIN enum.by_number : n \in 0..MAX_ENUM_VALUE
       /\ \A nm \in DOMAIN enum.by_name :
            /\ lookup_by_name(enum, nm).name = nm
            /\ lookup_by_name(enum, nm).number \in DOMAIN enum.by_number
            /\ lookup_by_number(enum, lookup_by_name(enum, nm).number) =
                 lookup_by_name(enum, nm)
       /\ \A n \in DOMAIN enum.by_number :
            /\ lookup_by_number(enum, n).number = n
            /\ lookup_by_number(enum, n).name \in DOMAIN enum.by_name
            /\ lookup_by_name(enum, lookup_by_number(enum, n).name) =
                 lookup_by_number(enum, n)

\* A declaration of three members, 0 and 2^29-1 among their numbers, has
\* succeeded.
C5_Witness ==
  /\ last.op = "declare"
  /\ last.err = NoError
  /\ Len(last.arg.items) = 3
  /\ {0, MAX_ENUM_VALUE} \subseteq DOMAIN enum.by_number

\* A set_default call named a member of the type.
NamesMember(e, call) ==
  \/ call.arg.t = "int" /\ call.arg.v \in DOMAIN e.by_number
  \/ call.arg.t = "text" /\ call.arg.v \in DOMAIN e.by_name

\* C4: the default right after declaration is the member with the lowest
\* number, and in a sequence of set_default calls that name members exactly
\* the first succeeds; every later one fails and leaves the default as it
\* was.
C4_DefaultSetOnce ==
  /\ (last.op = "declare" /\ enum # NoEnum /\ DOMAIN enum.by_number # {}) =>
       /\ enum.DEFAULT \in {enum.by_number[n] : n \in DOMAIN enum.by_number}
       /\ \A n \in DOMAIN enum.by_number : enum.DEFAULT.number <= n
  /\ \A i \in 1..Len(calls) :
       (\A k \in 1..i : NamesMember(enum, calls[k])) =>
         /\ (calls[i].err = NoError) <=> (i = 1)
         /\ i > 1 => calls[i].after = calls[i].before

----------------------------------------------------------------------------
(* The completeness check.                                                 *)

\* Field f has an assigned value in the tag-store of m.
Assigned(m, f) == f.number \in DOMAIN m.tags

\* The message instances held directly by the set message fields of m: the
\* singular values and the elements of the stored lists.
HeldMessages(m) ==
  UNION {IF f.repeated
         THEN {m.tags[f.number].elems[i] : i \in 1..Len(m.tags[f.number].elems)}
         ELSE {m.tags[f.number]} :
         f \in {g \in all_fields(m.type) : g.kind = "Message" /\ Assigned(m, g)}}

\* Some required field of m has no assigned value.
LacksRequired(m) == \E f \in all_fields(m.type) : f.required /\ ~Assigned(m, f)

\* m, or an instance reachable from m through message fields, has a
\* required field without an assigned value.
RECURSIVE SomeLacksRequired(_)
SomeLacksRequired(m) ==
  \/ LacksRequired(m)
  \/ \E x \in HeldMessages(m) : x.t = "msg" /\ SomeLacksRequired(x)

\* m has every required field assigned and every message value it holds is
\* initialized in the same sense.
RECURSIVE Initialized(_)
Initialized(m) ==
  /\ ~LacksRequired(m)
  /\ \A x \in HeldMessages(m) : x.t = "msg" => Initialized(x)

\* C1: check_initialized fails with a ValidationError whenever some required
\* field of the instance has no assigned value in the tag-store, whatever
\* the default of the field.
C1_MissingRequiredFails ==
  (last.op = "check_initialized" /\ LacksRequired(msg)) =>
    last.err.kind = "ValidationError"

\* C2: an instance whose required fields are all assigned and whose nested
\* message values are all initialized passes check_initialized, whatever its
\* optional and repeated fields hold.
C2_InitializedPasses ==
  (last.op = "check_initialized" /\ Initialized(msg)) => last.err = NoError

\* C3: check_initialized fails with a ValidationError if an instance
\* reachable through the set message fields (singular or element of a
\* repeated field, at any depth) lacks a required field.
C3_NestedMissingFails ==
  (last.op = "check_initialized" /\
   \E x \in HeldMessages(msg) : x.t = "msg" /\ SomeLacksRequired(x)) =>
    last.err.kind = "ValidationError"

----------------------------------------------------------------------------
(* Construction and reads; lists of repeated fields.                       *)

\* The value a field is to read as after value was supplied for it: the
\* value, an integer given to a Float field being the float of that number.
Coerced(f, value) ==
  IF f.kind = "Float" /\ value.t \in {"int", "bool"}
  THEN FloatV(IntOf(value)) ELSE value

\* C6: after a constructor call with valid keyword values, each field reads
\* back as the supplied value after the kind's coercion: a singular field as
\* the coerced value, a repeated field as the list of the coerced elements
\* (messages given as dicts are left aside).
C6_ConstructReadRoundTrip ==
  (last.op = "init" /\ last.err = NoError) =>
    \A nm \in DOMAIN last.arg.items \cap DOMAIN by_name[msg.type] :
      LET f == by_name[msg.type][nm]
          supplied == last.arg.items[nm]
          read == Field_get(msg, f)
      IN (supplied # NoneV /\ f.kind # "Message") =>
           /\ ~Failed(read)
           /\ IF f.repeated
              THEN /\ Len(read.val.elems) = Len(supplied.elems)
                   /\ \A i \in 1..Len(supplied.elems) :
                        read.val.elems[i] = Coerced(f, supplied.elems[i])
              ELSE read.val = Coerced(f, supplied)

\* An operation of the stored list of a repeated field.
ListOps == {"append", "insert", "extend", "setitem", "setslice"}

\* Element x is acceptable for the repeated field f: not null and accepted
\* by the field's validate_element.
ValidElement(f, x) == x # NoneV /\ ~Failed(validate_element(f, x))

\* The elements a list operation was asked to add.
Added(l) ==
  IF l.op \in {"append", "insert", "setitem"} THEN <<l.arg>>
  ELSE IF IsSequence(l.arg) THEN l.arg.elems ELSE <<>>

\* C8: after any sequence of list operations every element of a stored list
\* is non-null and valid for the field, and an operation asked to add a null
\* or invalid element has failed with ValidationError.
C8_ListElementsValid ==
  msg # NoMsg =>
    /\ \A f \in all_fields(msg.type) :
         (f.repeated /\ Assigned(msg, f)) =>
           \A i \in 1..Len(msg.tags[f.number].elems) :
             ValidElement(f, msg.tags[f.number].elems[i])
    /\ (last.op \in ListOps /\
        \E i \in 1..Len(Added(last)) :
          ~ValidElement(by_name[msg.type][last.name], Added(last)[i])) =>
         last.err.kind = "ValidationError"

\* C9 for one state: every repeated field of m has a stored list; the list
\* of a repeated field left out of the constructor call is empty, a reset
\* has made it empty, and an assignment of None has raised ValidationError.
RepeatedStored(m, l) ==
  \A f \in all_fields(m.type) :
    f.repeated =>
      /\ Assigned(m, f)
      /\ m.tags[f.number].t = "fieldlist"
      /\ (l.op = "init" /\ f.name \notin DOMAIN l.arg.items) =>
           m.tags[f.number].elems = <<>>
      /\ (l.op = "reset" /\ l.name = f.name) =>
           l.err = NoError /\ m.tags[f.number].elems = <<>>
      /\ (l.op = "setattr" /\ l.name = f.name /\ l.arg = NoneV) =>
           l.err.kind = "ValidationError"

\* C9: after construction and any assignments and resets, the stored value
\* of each repeated field is a sequence, never null: it starts empty when
\* not supplied, an assignment of null fails with ValidationError and leaves
\* the instance as it was, and reset makes it the empty sequence.
C9_RepeatedAlwaysSequence ==
  [][/\ msg' # NoMsg => RepeatedStored(msg', last')
     /\ (msg # NoMsg /\ last'.op = "setattr" /\ last'.arg = NoneV /\
         last'.name \in RepeatedNames) => msg' = msg]_vars

\* None has been assigned to a repeated field whose stored list is not
\* empty, and the assignment has raised ValidationError.
C9_Witness ==
  /\ msg # NoMsg
  /\ last.op = "setattr"
  /\ last.name \in RepeatedNames
  /\ last.arg = NoneV
  /\ last.err.kind = "ValidationError"
  /\ Stored(last.name).elems # <<>>

----------------------------------------------------------------------------
(* Equality of message instances.                                          *)

\* Two tag-stores are equal: the same fields are assigned, with equal
\* values.
EqualTags(a, b) ==
  /\ DOMAIN a = DOMAIN b
  /\ \A number \in DOMAIN a : PyEq(a[number], b[number])

\* C7: msg == other holds if and only if the two instances have the same
\* message type and equal tag-stores of assigned values; so an instance
\* with a field unset differs from one of the same type with that field
\* assigned, even to its default, and the unrecognized fields play no part.
C7_EqualityByTypeAndTags ==
  (last.op = "eq" /\ last.name = "other") =>
    /\ last.ret.v <=> (msg.type = other.type /\ EqualTags(msg.tags, other.tags))
    /\ (\E f \in all_fields(msg.type) :
          msg.type = other.type /\ (Assigned(msg, f) # Assigned(other, f))) =>
         ~last.ret.v
    /\ last.ret.v =>
         Message_eq([msg EXCEPT !.unrec = EmptyDict], other, FALSE)

\* Two HasDefault instances have been compared, attr1 unset in one and
\* assigned its default "dv" in the other, msg holding an unrecognized
\* field.
C7_Witness ==
  /\ last.op = "eq"
  /\ last.name = "other"
  /\ msg.type = "HasDefault"
  /\ other.type = "HasDefault"
  /\ msg.tags = EmptyDict
  /\ msg.unrec # EmptyDict
  /\ other.tags = (1 :> TextV("dv"))
  /\ ~last.ret.v

----------------------------------------------------------------------------
(* Assignment of None to a singular field.                                 *)

\* The step assigned None to the declared singular field f of msg.
AssignsNone(f) ==
  /\ msg # NoMsg
  /\ last'.op = "setattr"
  /\ last'.arg = NoneV
  /\ f \in all_fields(msg.type)
  /\ last'.name = f.name
  /\ ~f.repeated

\* The assignment of this step succeeded and cleared field f: the tag-store
\* is the one before without the entry of f, the field reads as its
\* default, and the instance is equal to one of the same type that holds
\* the other assigned values and never had f assigned.
ClearedByStep(f) ==
  /\ last'.err = NoError
  /\ ~Assigned(msg', f)
  /\ msg'.tags = Pop(msg.tags, f.number)
  /\ Field_get(msg', f) = Field_default(f)
  /\ Message_eq(msg', MsgV(msg.type, Pop(msg.tags, f.number), EmptyDict), FALSE)

----------------------------------------------------------------------------
(* C11: names that are not fields.                                         *)

\* The keywords of a constructor call that name no field of type T.
UnknownKeywords(T, kwargs) == DOMAIN kwargs \ DOMAIN by_name[T]

\* C11: for every message type and every keyword name that is not the name
\* of a declared field, constructing an instance with that keyword fails and
\* produces no instance, and assigning such a name on an existing instance
\* fails and leaves the instance unchanged.
C11_UnknownNameRejected ==
  [][/\ (last'.op = "init" /\ UnknownKeywords(last'.name, last'.arg.items) # {})
          => (last'.err # NoError /\ msg' = NoMsg)
     /\ (last'.op = "setattr" /\ last'.name \notin DOMAIN by_name[msg.type])
          => (last'.err # NoError /\ msg' = msg)]_vars

----------------------------------------------------------------------------
(* C12: is_initialized.                                                    *)

\* C12: is_initialized never raises in any reachable instance state
\* (states reached by mutating the stored lists of repeated fields
\* included); it returns true exactly when check_initialized would complete
\* without error and false in every other case.
C12_IsInitializedNeverRaises ==
  last.op = "is_initialized" =>
    /\ last.err = NoError
    /\ last.ret = BoolV(~Failed(check_initialized(msg)))

----------------------------------------------------------------------------
(* C13: the completeness check has no side effects.                        *)

Checks == {"check_initialized", "is_initialized"}

----------------------------------------------------------------------------
(* C14: a descriptor is frozen once constructed.                           *)

\* The initialization-time attributes of a descriptor: number, required,
\* repeated, variant and the default as given.
InitAttributes ==
  {"number", "required", "repeated", "variant", "_Field__default"}
Frozen(self) == [name \in InitAttributes |-> self.attrs[name]]

\* C14: once a descriptor is constructed, every assignment to its number,
\* required, repeated, variant or default (by the property's name or the
\* attribute's) raises AttributeError, and these attributes keep their
\* values in every step.
C14_FrozenAfterConstruction ==
  [][\A id \in FieldIds :
       fields[id] # NoField =>
         /\ fields'[id] # NoField
         /\ Frozen(fields'[id]) = Frozen(fields[id])
         /\ (/\ last'.op = "Field.setattr"
             /\ last'.idx = <<id>>
             /\ last'.name \in InitAttributes \cup {"default"})
              => last'.err = Error("AttributeError")]_vars

C14_Witness ==
  /\ last.op = "Field.setattr"
  /\ last.name = "number"
  /\ last.err = Error("AttributeError")
  /\ fields["f"].kind = "Enum"
  /\ fields["f"].attrs["number"] = IntV(MAX_FIELD_NUMBER)
  /\ fields["f"].attrs["_Field__default"] = TextV("BUY")
  /\ "name" \in DOMAIN fields["f"].attrs

----------------------------------------------------------------------------
(* C15: the deferred attributes of a descriptor.                           *)

\* The deferred attributes a descriptor has been given: those present in
\* its dictionary with a value other than the None the constructor stores
\* for a type that is not resolved yet.
DeferredSet(self) ==
  {name \in POST_INIT_FIELD_ATTRIBUTE_NAMES \cap DOMAIN self.attrs :
     self.attrs[name] # NoObject}

\* C15: a deferred attribute of a descriptor (name, owning message,
\* resolved type, resolved default) that has been set keeps its value in
\* every step, whether the step is an assignment to it or a message
\* declaration that uses the descriptor again.
C15_DeferredSetOnce ==
  [][\A id \in FieldIds :
       fields[id] # NoField =>
         \A name \in DeferredSet(fields[id]) :
           fields'[id].attrs[name] = fields[id].attrs[name]]_vars

\* A descriptor bound to the class M under one name is bound to the class
\* N under another by the declaration of N.
C15_Rebound ==
  /\ last.op = "class"
  /\ last.name = "N"
  /\ last.err = NoError
  /\ classes["M"] # NoClass
  /\ "a" \in DOMAIN classes["M"].by_name
  /\ "b" \in DOMAIN classes["N"].by_name
  /\ classes["M"].by_name["a"] = classes["N"].by_name["b"]
  /\ fields[classes["M"].by_name["a"]].attrs["name"] = TextV("b")
  /\ fields[classes["M"].by_name["a"]].attrs["_message_definition"] = TextV("N")

----------------------------------------------------------------------------
(* C16: field numbers are unique in a message type.                        *)

\* The descriptors in the body of a class statement, by position.
FieldItems(dct) == {i \in DOMAIN dct : IsFieldRef(dct[i].value)}

\* The body consists of descriptors under keys that are not reserved.
OnlyFields(dct) ==
  \A i \in DOMAIN dct :
    IsFieldRef(dct[i].value) /\ dct[i].key \notin RESERVED_ATTRIBUTE_NAMES

\* Two items of the body are descriptors with the same number.
SameNumberTwice(flds, dct) ==
  \E i \in FieldItems(dct) : \E j \in FieldItems(dct) \ {i} :
    IntOf(flds[dct[i].value.id].attrs["number"]) =
    IntOf(flds[dct[j].value.id].attrs["number"])

\* C16: the declaration of a subclass of Message whose body consists of
\* fields, two of them with the same number, raises DuplicateNumberError
\* and creates no class; in every class created the fields under distinct
\* names have distinct numbers, and by_number holds each field of by_name
\* under its number and nothing else.
C16_NumbersUnique ==
  /\ (/\ last.op = "class"
      /\ last.arg.bases = "Message"
      /\ OnlyFields(last.arg.dct)
      /\ SameNumberTwice(fields, last.arg.dct))
       => (last.err = Error("DuplicateNumberError") /\
           classes[last.name] = NoClass)
  /\ \A name \in DOMAIN classes :
       classes[name] # NoClass =>
         /\ \A k1 \in DOMAIN classes[name].by_name :
              \A k2 \in DOMAIN classes[name].by_name \ {k1} :
                fields[classes[name].by_name[k1]].attrs["number"] #
                fields[classes[name].by_name[k2]].attrs["number"]
         /\ \A k \in DOMAIN classes[name].by_name :
              LET id == classes[name].by_name[k]
              IN /\ IntOf(fields[id].attrs["number"]) \in
                      DOMAIN classes[name].by_number
                 /\ classes[name].by_number[IntOf(fields[id].attrs["number"])]
                      = id
         /\ \A n \in DOMAIN classes[name].by_number :
              \E k \in DOMAIN classes[name].by_name :
                classes[name].by_name[k] = classes[name].by_number[n]

\* A declaration with two descriptors of the same number has failed, after
\* one of two descriptors with different numbers has succeeded.
C16_Witness ==
  /\ last.op = "class"
  /\ last.name = "N"
  /\ last.arg.bases = "Message"
  /\ OnlyFields(last.arg.dct)
  /\ SameNumberTwice(fields, last.arg.dct)
  /\ last.err = Error("DuplicateNumberError")
  /\ classes["M"] # NoClass
  /\ Cardinality(DOMAIN classes["M"].by_name) = 2
  /\ Cardinality(DOMAIN classes["M"].by_number) = 2

----------------------------------------------------------------------------
(* C17: the exceptions of a message declaration.                           *)

\* C17: every exception a message declaration raises, that of a duplicate
\* field number included, is an instance of MessageDefinitionError.
C17_DeclarationErrorsAreMessageDefinitionErrors ==
  (last.op = "class" /\ last.err # NoError) =>
    IsA(last.err.kind, "MessageDefinitionError")

----------------------------------------------------------------------------
(* C18: the number of a field.                                             *)

\* A Python integer (a bool is one) from 1 to MAX_FIELD_NUMBER outside the
\* reserved range.
NumberInRange(number) ==
  /\ IsInteger(number)
  /\ IntOf(number) \in 1..MAX_FIELD_NUMBER
  /\ IntOf(number) \notin
       FIRST_RESERVED_FIELD_NUMBER..LAST_RESERVED_FIELD_NUMBER

\* The declaration names a type its field class accepts (a class of the
\* right kind or a name) and passes only arguments the class takes.
WellTyped(a) ==
  /\ a.kind = "Message" =>
       /\ a.type \in {ClassObject(<<"test", "Lot">>), TextV(<<"Lot">>)}
       /\ a.default = NoneV
  /\ a.kind = "Enum" =>
       a.type \in {ClassObject(<<"test", "TradeType">>), TextV(<<"TradeType">>)}

\* Flags that do not conflict, a variant of the field class, no default.
PlainArguments(a) ==
  /\ ~(a.required /\ a.repeated)
  /\ a.variant \in VARIANTS(a.kind) \cup {NoneV}
  /\ a.default = NoneV

\* C18: whatever its other arguments, a declaration with a number that is
\* not an integer from 1 to 2^29-1 outside 19000..19999 raises
\* InvalidNumberError and yields no descriptor; with a number that is, it
\* does not raise InvalidNumberError, and it yields a descriptor with that
\* number when its other arguments are valid.
C18_NumberRange ==
  (last.op = "Field" /\ WellTyped(last.arg)) =>
    /\ ~NumberInRange(last.arg.number) =>
         (last.err = Error("InvalidNumberError") /\ fields["f"] = NoField)
    /\ NumberInRange(last.arg.number) =>
         /\ last.err # Error("InvalidNumberError")
         /\ PlainArguments(last.arg) =>
              /\ last.err = NoError
              /\ fields["f"] # NoField
              /\ fields["f"].attrs["number"] = last.arg.number

C18_Witness ==
  /\ last.op = "Field"
  /\ last.arg.number = IntV(MAX_FIELD_NUMBER)
  /\ last.arg.kind = "Message"
  /\ last.err = NoError
  /\ fields["f"] # NoField
  /\ fields["f"].attrs["number"] = IntV(MAX_FIELD_NUMBER)

\* The numbers next to the limits are refused.
C18_WitnessRefused ==
  /\ last.op = "Field"
  /\ last.arg.number = IntV(LAST_RESERVED_FIELD_NUMBER)
  /\ PlainArguments(last.arg)
  /\ last.err = Error("InvalidNumberError")

----------------------------------------------------------------------------
(* C19: required, repeated and default.                                    *)

\* C19: a declaration with required and repeated both true, or with
\* repeated true and a default other than None, raises an exception and
\* yields no descriptor, for every field class and whatever the other
\* arguments; the exception is FieldDefinitionError when the type and the
\* number are valid; and no descriptor is both required and repeated, or
\* repeated with a default.
C19_FlagConflicts ==
  /\ (/\ last.op = "Field"
      /\ \/ last.arg.required /\ last.arg.repeated
         \/ last.arg.repeated /\ last.arg.default # NoneV)
       => /\ last.err # NoError
          /\ fields["f"] = NoField
          /\ (WellTyped(last.arg) /\ NumberInRange(last.arg.number))
               => last.err = Error("FieldDefinitionError")
  /\ \A id \in FieldIds :
       fields[id] # NoField =>
         /\ ~(fields[id].attrs["required"].v /\ fields[id].attrs["repeated"].v)
         /\ ~(fields[id].attrs["repeated"].v /\
              fields[id].attrs["_Field__default"] # NoneV)

C19_Witness ==
  /\ last.op = "Field"
  /\ last.arg.kind = "Enum"
  /\ last.arg.required
  /\ last.arg.repeated
  /\ last.arg.default = NoneV
  /\ last.arg.variant = NoneV
  /\ WellTyped(last.arg)
  /\ NumberInRange(last.arg.number)
  /\ last.err = Error("FieldDefinitionError")

\* A repeated field with a default that is valid for its class is refused.
C19_WitnessDefault ==
  /\ last.op = "Field"
  /\ last.arg.kind = "Integer"
  /\ ~last.arg.required
  /\ last.arg.repeated
  /\ last.arg.default = IntV(1)
  /\ NumberInRange(last.arg.number)
  /\ last.err = Error("FieldDefinitionError")

----------------------------------------------------------------------------
(* C20: the default of a field.                                            *)

\* The default is a value of the field class: an integer for IntegerField,
\* a number for FloatField, a bool for BooleanField, a string for
\* StringField and BytesField, and for EnumField a member of the enum type
\* or the name or number of one (any name or number while the type is only
\* named).
ValidDefault(a) ==
  CASE a.kind = "Integer" -> IsInteger(a.default)
    [] a.kind = "Float" -> IsInteger(a.default) \/ a.default.t = "float"
    [] a.kind = "Boolean" -> a.default.t = "bool"
    [] a.kind = "Bytes" -> a.default.t \in {"bytes", "text"}
    [] a.kind = "String" -> a.default.t \in {"bytes", "text"}
    [] a.kind = "Enum" ->
         \/ a.default.t = "enum" /\ a.default.enum = "TradeType"
         \/ /\ IsString(a.type)
            /\ (IsInteger(a.default) \/ a.default.t \in {"bytes", "text"})
         \/ /\ IsInteger(a.default)
            /\ IntOf(a.default) \in DOMAIN Enums["TradeType"].by_number
         \/ /\ a.default.t \in {"bytes", "text"}
            /\ a.default.v \in DOMAIN Enums["TradeType"].by_name
    [] OTHER -> FALSE

\* C20: a declaration whose other arguments are valid and whose default is
\* not None and not a value of the field class raises InvalidDefaultError
\* and yields no descriptor; so does an EnumField given its enum class and
\* a default that is a name or number of no member.
C20_InvalidDefaultRejected ==
  (/\ last.op = "Field"
   /\ WellTyped(last.arg)
   /\ NumberInRange(last.arg.number)
   /\ ~last.arg.repeated
   /\ last.arg.variant \in VARIANTS(last.arg.kind) \cup {NoneV}
   /\ last.arg.default # NoneV
   /\ ~ValidDefault(last.arg))
    => (last.err = Error("InvalidDefaultError") /\ fields["f"] = NoField)

\* EnumField(TradeType, 1, default='bogus') raises TypeError.
C20_TypeErrorEscapes ==
  /\ last.op = "Field"
  /\ last.arg.kind = "Enum"
  /\ last.arg.type = ClassObject(<<"test", "TradeType">>)
  /\ last.arg.number = IntV(1)
  /\ last.arg.default = TextV("bogus")
  /\ last.err = Error("TypeError")

----------------------------------------------------------------------------
(* C23: reading an unset singular field.                                   *)

\* The value an unset field is to read as: the declared default, and for
\* an enum field whose default is declared as a name or a number, the
\* member of the enum type with that name or number.
DeclaredDefault(f) ==
  IF f.kind = "Enum" /\ f.default # NoneV /\ f.default.t # "enum"
  THEN Member("TradeType",
              CHOOSE nm \in DOMAIN Enums["TradeType"].by_name :
                IF f.default.t = "text" THEN nm = f.default.v
                ELSE Enums["TradeType"].by_name[nm].number = IntOf(f.default))
  ELSE f.default

\* C23: a read of a singular field that has no value in the tag-store
\* returns the field's default, None when none is declared and the member
\* named or numbered by the default of an enum field, and the instance with
\* its tag-store is the same after the read.
C23_UnsetReadsDefault ==
  [][last'.op = "getattr" =>
       /\ msg' = msg
       /\ (/\ ~by_name[msg.type][last'.name].repeated
           /\ by_name[msg.type][last'.name].number \notin DOMAIN msg.tags)
            => /\ last'.err = NoError
               /\ last'.ret = DeclaredDefault(by_name[msg.type][last'.name])]_vars

C23_Witness ==
  /\ msg # NoMsg
  /\ msg.type = "Choice"
  /\ last.op = "getattr"
  /\ last.name = "kind"
  /\ 2 \notin DOMAIN msg.tags
  /\ 1 \in DOMAIN msg.tags
  /\ last.ret = Member("TradeType", "SHORT")

----------------------------------------------------------------------------
(* C24: dicts assigned to message fields.                                  *)

\* The dicts at the positions of a sequence.
DictItems(elems) == {i \in DOMAIN elems : elems[i].t = "dict"}

\* The message field f of m, whose type resolves, is assigned value: a
\* dict for a singular field, a list or tuple that holds a dict for a
\* repeated one.
AssignsDict(f, value) ==
  /\ f.kind = "Message"
  /\ ~Failed(Field_type(f))
  /\ IF f.repeated
     THEN value.t \in {"list", "tuple"} /\ DictItems(value.elems) # {}
     ELSE value.t = "dict"

\* C24: an assignment of a dict to a singular message field stores the
\* instance the field's message type constructs from the dict's items, and
\* an assignment of a sequence to a repeated message field stores that
\* instance in the place of each dict of the sequence; when the constructor
\* refuses a dict the assignment raises and the instance stays as it was.
C24_DictBecomesInstance ==
  [][(/\ last'.op = "setattr"
      /\ last'.name \in DOMAIN by_name[msg.type]
      /\ AssignsDict(by_name[msg.type][last'.name], last'.arg))
       => LET f == by_name[msg.type][last'.name]
              T == Field_type(f).val
              value == last'.arg
          IN IF f.repeated
             THEN /\ (\E i \in DictItems(value.elems) :
                        Failed(Message_init(T, value.elems[i].items)))
                       => (last'.err # NoError /\ msg' = msg)
                  /\ last'.err = NoError =>
                       /\ Len(msg'.tags[f.number].elems) = Len(value.elems)
                       /\ \A i \in DOMAIN value.elems :
                            msg'.tags[f.number].elems[i] =
                              IF i \in DictItems(value.elems)
                              THEN Message_init(T, value.elems[i].items).val
                              ELSE value.elems[i]
             ELSE IF Failed(Message_init(T, value.items))
                  THEN last'.err # NoError /\ msg' = msg
                  ELSE /\ last'.err = NoError
                       /\ msg'.tags[f.number] = Message_init(T, value.items).val]_vars

\* A list of two dicts has been stored as two instances of Lot.
C24_Witness ==
  /\ msg # NoMsg
  /\ last.op = "setattr"
  /\ last.name = "lots"
  /\ last.err = NoError
  /\ last.arg.t = "list"
  /\ DictItems(last.arg.elems) = {1, 2}
  /\ msg.tags[by_name[msg.type]["lots"].number].elems[2] =
       Message_init("Lot", Kw2("price", IntV(10), "quantity", IntV(10))).val

\* A dict has been stored as an instance by a singular field.
C24_WitnessSingular ==
  /\ msg # NoMsg
  /\ msg.type = "Forward"
  /\ last.op = "setattr"
  /\ last.name = "lot"
  /\ last.arg.t = "dict"
  /\ last.err = NoError
  /\ msg.tags[1].t = "msg"

----------------------------------------------------------------------------
(* C25: unrecognized fields.                                               *)

\* Instances an instance is compared with: one with the same tag-store and
\* no unrecognized fields, and instances of its type and of Lot.
ComparedWith(m) ==
  {[m EXCEPT !.unrec = EmptyDict]} \cup InputInstances(m.type) \cup
  InputInstances("Lot")

\* C25: a call of set_unrecognized_field leaves the tag-store, what every
\* field reads as, the result of == with other instances and the outcome
\* of check_initialized as they were; after a call that returns,
\* get_unrecognized_field_info returns the pair just stored for that key
\* and what it returned before for any other key; it returns the defaults
\* passed for a key nothing was stored under, and changes nothing.
C25_UnrecognizedOnly ==
  [][/\ last'.op = "set_unrecognized_field" =>
          /\ msg'.tags = msg.tags
          /\ msg'.type = msg.type
          /\ \A f \in all_fields(msg.type) : Field_get(msg', f) = Field_get(msg, f)
          /\ \A o \in ComparedWith(msg) :
               /\ Message_eq(msg', o, FALSE) = Message_eq(msg, o, FALSE)
               /\ Message_eq(o, msg', FALSE) = Message_eq(o, msg, FALSE)
          /\ check_initialized(msg') = check_initialized(msg)
          /\ last'.err # NoError => msg' = msg
          /\ last'.err = NoError =>
               \A key \in KeyInputs_Unrecognized : \A d \in DefaultPairs :
                 get_unrecognized_field_info(msg', key, d[1], d[2]) =
                   IF key = last'.name THEN last'.arg
                   ELSE get_unrecognized_field_info(msg, key, d[1], d[2])
     /\ last'.op = "init" /\ last'.err = NoError =>
          \A key \in KeyInputs_Unrecognized : \A d \in DefaultPairs :
            get_unrecognized_field_info(msg', key, d[1], d[2]) = TupleV(d)
     /\ last'.op = "get_unrecognized_field_info" =>
          /\ msg' = msg
          /\ last'.ret = get_unrecognized_field_info(msg', last'.name,
                                                     last'.arg.elems[1],
                                                     last'.arg.elems[2])]_vars

\* A second pair has been stored under a key of an instance that holds a
\* field value, and is read back.
C25_Witness ==
  /\ msg # NoMsg
  /\ msg.type = "Lot"
  /\ msg.tags # EmptyDict
  /\ DOMAIN msg.unrec = {"x", "price"}
  /\ last.op = "get_unrecognized_field_info"
  /\ last.name = "price"
  /\ last.ret = TupleV(<<TextV("dv"), EnumV("Variant", "INT64", 3)>>)
  /\ msg.unrec["x"][1] = IntV(10)

----------------------------------------------------------------------------
(* C26: email addresses.                                                   *)

\* The number of at signs of a string, and the text before the first one.
AtSigns(s) == Cardinality({i \in DOMAIN s : s[i] = "@"})
LocalPart(s) == Split(s, "@")[1]

\* A text value an email field is to refuse: not exactly one at sign, or
\* nothing before it.
NotAnAddress(value) ==
  value.t = "text" /\ (AtSigns(value.v) # 1 \/ LocalPart(value.v) = <<>>)

\* The values the tag-store holds for the email fields of m.
StoredEmails(m) ==
  {m.tags[n] : n \in {k \in DOMAIN m.tags : m.tags[k].t # "fieldlist"}} \cup
  UNION {{m.tags[n].elems[i] : i \in DOMAIN m.tags[n].elems} :
           n \in {k \in DOMAIN m.tags : m.tags[k].t = "fieldlist"}}

\* C26: an assignment to an email field of a string, or of a list of
\* strings, with a string that does not hold exactly one at sign or holds
\* nothing before it raises ValidationError, and the tag-store of an
\* instance never holds such a string for an email field.
C26_EmailRejected ==
  /\ (/\ last.op = "setattr"
      /\ msg.type = "Contact"
      /\ \/ last.name = "email" /\ NotAnAddress(last.arg)
         \/ /\ last.name = "emails"
            /\ last.arg.t = "list"
            /\ \E i \in DOMAIN last.arg.elems : NotAnAddress(last.arg.elems[i]))
       => last.err = Error("ValidationError")
  /\ (msg # NoMsg /\ msg.type = "Contact") =>
       \A value \in StoredEmails(msg) : ~NotAnAddress(value)

\* msg.email = '@a.aa' has returned and the string is in the tag-store.
C26_EmptyLocalPartStored ==
  /\ msg # NoMsg
  /\ msg.type = "Contact"
  /\ last.op = "setattr"
  /\ last.name = "email"
  /\ last.arg = TextV(<<"@", "a", ".", "a", "a">>)
  /\ last.err = NoError
  /\ msg.tags[1] = TextV(<<"@", "a", ".", "a", "a">>)

\* msg.email = '' has returned with None stored under the field's number.
C26_EmptyStringAccepted ==
  /\ msg # NoMsg
  /\ msg.type = "Contact"
  /\ last.op = "setattr"
  /\ last.name = "email"
  /\ last.arg = TextV(<<>>)
  /\ last.err = NoError
  /\ msg.tags[1] = NoneV

\* msg.emails = [''] has returned with the empty string in the stored list.
C26_EmptyStringStored ==
  /\ msg # NoMsg
  /\ msg.type = "Contact"
  /\ last.op = "setattr"
  /\ last.name = "emails"
  /\ last.err = NoError
  /\ msg.tags[2].elems = <<TextV(<<>>)>>

----------------------------------------------------------------------------
(* C27: the message name carried by a failed completeness check.           *)

\* C27: when check_initialized of an instance fails with a ValidationError
\* and the instance has all its own required fields, so that the failure
\* comes from an instance below it, the error carries the name of the type
\* of the instance the check was called on.
C27_OutermostNameAttached ==
  (/\ last.op = "check_initialized"
   /\ last.err.kind = "ValidationError"
   /\ ~LacksRequired(msg)
   /\ \E x \in HeldMessages(msg) : x.t = "msg" /\ SomeLacksRequired(x))
    => last.err.message_name = msg.type

\* The check of an Account holding an Order that holds a Lot without
\* quantity has failed with the name Order on the error.
C27_MiddleNameAttached ==
  /\ msg # NoMsg
  /\ msg.type = "Account"
  /\ last.op = "check_initialized"
  /\ last.err = [kind |-> "ValidationError", message_name |-> "Order"]

\* The check of an instance directly holding the incomplete one has failed
\* with the name of the instance's own type on the error.
C27_ParentNameAttached ==
  /\ msg # NoMsg
  /\ last.op = "check_initialized"
  /\ ~LacksRequired(msg)
  /\ \E x \in HeldMessages(msg) : x.t = "msg" /\ LacksRequired(x)
  /\ last.err = [kind |-> "ValidationError", message_name |-> msg.type]

----------------------------------------------------------------------------
(* C30: a failed assignment stores nothing.                                *)

Refused(f, elems, i) ==
  elems[i] = NoneV \/ Failed(validate_element(f, elems[i]))

C30_WitnessSequence ==
  /\ msg # NoMsg
  /\ last.op = "setattr"
  /\ last.err = Error("ValidationError")
  /\ last.name \in DOMAIN by_name[msg.type]
  /\ by_name[msg.type][last.name].repeated
  /\ by_name[msg.type][last.name].kind # "Message"
  /\ last.arg.t = "list"
  /\ Len(last.arg.elems) = 2
  /\ ~Refused(by_name[msg.type][last.name], last.arg.elems, 1)
  /\ Refused(by_name[msg.type][last.name], last.arg.elems, 2)
  /\ msg.tags[by_name[msg.type][last.name].number].elems # <<>>

\* An assignment to a singular field has raised ValidationError, the field
\* holding a value.
C30_WitnessSingular ==
  /\ msg # NoMsg
  /\ last.op = "setattr"
  /\ last.err = Error("ValidationError")
  /\ last.name \in DOMAIN by_name[msg.type]
  /\ ~by_name[msg.type][last.name].repeated
  /\ by_name[msg.type][last.name].number \in DOMAIN msg.tags

----------------------------------------------------------------------------
(* C21, C22: resolution of names by find_definition.                       *)

\* The scopes a search from the object at path visits, by dotted path: the
\* object, the message classes around it, its module, the packages of the
\* module and the top level (the empty path).
Scopes(path) == {SubSeq(path, 1, n) : n \in 0..Len(path)}

\* The path the call in progress or ended starts from: that of relative_to,
\* the top level for a name with a leading dot.
StartPath ==
  IF last.arg.name[1] = "" THEN <<>> ELSE last.arg.anchor.path

\* The scopes of the call from which the whole name leads to a class.
Resolving == {p \in Scopes(StartPath) : p \o CurrentPath \in ClassPaths}

\* The innermost of the scopes in S.
Innermost(S) == CHOOSE p \in S : \A q \in S : Len(q) <= Len(p)

\* relative_to is None, a module or a message class.
ValidAnchor(o) == o = NoObject \/ o.k = "module" \/ IsMessageClass(o)

\* C21: when the name leads to a class from relative_to or from a scope
\* around it, find_definition returns the class found from the innermost
\* such scope, whatever classes of the same name the outer scopes hold.
C21_InnermostScopeWins ==
  (last.op = "find_definition" /\ ValidAnchor(last.arg.anchor) /\
   Resolving # {})
    => /\ last.err = NoError
       /\ last.ret = ClassObject(Innermost(Resolving) \o CurrentPath)

\* find_definition('Sibling', Outer.Inner) has returned Outer.Sibling, a
\* class Sibling existing in the module as well.
C21_Witness ==
  /\ last.op = "find_definition"
  /\ last.arg.name = <<"Sibling">>
  /\ last.arg.anchor = ClassObject(<<"pkg", "sub", "Outer", "Inner">>)
  /\ <<"pkg", "sub", "Sibling">> \in ClassPaths
  /\ last.err = NoError
  /\ last.ret = ClassObject(<<"pkg", "sub", "Outer", "Sibling">>)

\* The outcome of a call that ended: a message or enum class the whole
\* name leads to from one of the scopes of the call, or
\* DefinitionNotFoundError when the name leads to no class from the top
\* level.
FindResult ==
  (last.op = "find_definition" /\ ValidAnchor(last.arg.anchor)) =>
    \/ /\ last.err = NoError
       /\ IsMessageClass(last.ret) \/ IsEnumClass(last.ret)
       /\ \E p \in Scopes(StartPath) : last.ret.path = p \o CurrentPath
    \/ /\ last.err = Error("DefinitionNotFoundError")
       /\ CurrentPath \notin ClassPaths

\* An iteration after which the loop goes on has replaced relative_to by
\* the scope directly around it.
Outward ==
  (last.op = "find_definition.while" /\ last'.op = "find_definition.while")
    => /\ last'.arg = last.arg
       /\ last.idx[1] # NoObject
       /\ last'.idx[1].path =
            SubSeq(last.idx[1].path, 1, Len(last.idx[1].path) - 1)

\* C22: every call of find_definition with None, a module or a message
\* class as relative_to ends; each iteration that does not end the call
\* moves relative_to to the scope directly around it; and the call returns
\* a message or enum class found by the whole name from one of the scopes,
\* or raises DefinitionNotFoundError after the search from the top level
\* failed.
C22_FindTerminates ==
  /\ []FindResult
  /\ [][Outward]_vars
  /\ (last.op = "find_definition.while") ~> (last.op = "find_definition")

\* A call from a class nested in a message class of a module of a package
\* has gone through every scope and raised DefinitionNotFoundError.
C22_Witness ==
  /\ last.op = "find_definition"
  /\ last.arg.anchor = ClassObject(<<"pkg", "sub", "Outer", "Inner">>)
  /\ last.arg.name = <<"Inner", "Top">>
  /\ last.err = Error("DefinitionNotFoundError")

\* A call is in its last iteration, relative_to being None after the
\* scopes of a nested class.
C22_WitnessTopLevel ==
  /\ last.op = "find_definition.while"
  /\ last.arg.anchor = ClassObject(<<"pkg", "sub", "Outer", "Inner">>)
  /\ last.idx[1] = NoObject

\* The call in progress or ended gives what the loop of find_definition
\* gives as a whole.
FindAgrees ==
  (last.op = "find_definition") =>
    LET r == find_definition(last.arg.name, last.arg.anchor)
    IN IF Failed(r) THEN last.err \in r.errs
       ELSE last.err = NoError /\ last.ret = r.val

----------------------------------------------------------------------------
(* The type property of MessageField and EnumField: a type given by name   *)
(* is resolved on the first read and kept in self.__type.                  *)

\* self.message_definition() of a descriptor: the message class it was
\* bound to, None for a descriptor outside a class.
Field_message_definition(self) ==
  IF AttrOr(self, "_message_definition", TextV("")).v = "" THEN NoObject
  ELSE ClassObject(ModuleOf(AttrOr(self, "_message_definition", TextV("")).v)
                   \o <<AttrOr(self, "_message_definition", TextV("")).v>>)

\* An assignment to self.__type that stores None.
StoreType_Clears(self, found) == Field_setattr(self, TypeAttr(self), NoObject)

\* self.__type = message_type (enum_type)
StoreType(self, found) == Field_setattr(self, TypeAttr(self), found)

\* The check of what find_definition returned: a subclass of Message for a
\* MessageField, of Enum for an EnumField.  Message and Enum themselves are
\* no classes of the namespace.
CheckFound(self, found) ==
  IF Failed(found) THEN found
  ELSE IF (self.kind = "Message" /\ IsMessageClass(found.val)) \/
          (self.kind = "Enum" /\ IsEnumClass(found.val))
  THEN found
  ELSE Raise("FieldDefinitionError")

\* The body of `if self.__type is None`, checked being the checked outcome
\* of find_definition: the assignment to self.__type.
Memoize(self, checked) ==
  IF Failed(checked) THEN checked ELSE StoreType(self, checked.val)

\* The body of `if self.__type is None` once find_definition has returned.
Resolve(self, found) == Memoize(self, CheckFound(self, found))

\* find_definition(self.__type_name, self.message_definition())
FindType(self) ==
  find_definition(AttrOr(self, TypeNameAttr(self), TextV(<<>>)).v,
                  Field_message_definition(self))

\* A type property that resolves the name on every read.
Descriptor_type_Always(self) == Resolve(self, FindType(self))

\* MessageField.type / EnumField.type: the descriptor after the read (the
\* value returned is its __type), or the exception raised.
Descriptor_type(self) ==
  IF ResolvedType(self) # NoObject THEN Ok(self)
  ELSE Resolve(self, FindType(self))

\* The places where a class Late can be declared after the descriptor that
\* names it: in the descriptor's class pkg.sub.Outer, in its module pkg.sub,
\* or in pkg.
LatePaths ==
  {<<"pkg", "sub", "Outer", "Late">>, <<"pkg", "sub", "Late">>,
   <<"pkg", "Late">>}

\* late = MessageField('Late', 1) and late = EnumField('Late', 1)
LateReferenceArgs ==
  {[kind |-> kind, type |-> TextV(<<"Late">>), number |-> IntV(1),
    required |-> FALSE, repeated |-> FALSE, variant |-> NoneV,
    default |-> NoneV] : kind \in {"Message", "Enum"}}

\* The descriptor r holds as the class statement of the message class T
\* binds it under key: _MessageClass.__new__ names it, __init__ sets its
\* _message_definition.
BoundTo(r, key, T) ==
  Assign(Assign(r, "name", TextV(key)), "_message_definition", TextV(T))

\* A field of pkg.sub.Outer declared with the name of a class, from args.
DeclareReferenceFrom(args) ==
  /\ fields["f"] = NoField
  /\ \E a \in args :
       Declared("f", a,
                BoundTo(NewField(a.kind, a.type, a.number, a.required,
                                 a.repeated, a.variant, a.default),
                        "late", "Outer"))
  /\ UNCHANGED <<msg, other, enum, calls, namespace, readers, classes>>

\* A field of pkg.sub.Outer that names the class Late.
DeclareReference == DeclareReferenceFrom(LateReferenceArgs)

\* class Late(Message) or class Late(Enum), in Outer, in pkg.sub or in pkg.
DefineLate ==
  \E p \in LatePaths \ DOMAIN namespace : \E base \in {"Message", "Enum"} :
    /\ namespace' = namespace @@ (p :> [base |-> base, attrs |-> {}])
    /\ last' = Last("class", "Late", NoneV, p, NoError, NoneV)
    /\ UNCHANGED <<msg, other, enum, calls, readers, fields, classes>>

\* id.type with outcome r.
TypeRead(id, r) ==
  IF Failed(r)
  THEN /\ \E e \in r.errs : last' = Last("Field.type", id, NoneV, <<>>, e, NoneV)
       /\ fields' = fields
  ELSE /\ last' = Last("Field.type", id, NoneV, <<>>, NoError,
                       ResolvedType(r.val))
       /\ fields' = [fields EXCEPT ![id] = r.val]

\* f.type
ReadType ==
  /\ fields["f"] # NoField
  /\ TypeRead("f", Descriptor_type(fields["f"]))
  /\ UNCHANGED <<msg, other, enum, calls, namespace, readers, classes>>

NextResolve ==
  \/ DeclareReference
  \/ DefineLate
  \/ ReadType

\* A descriptor naming a class that is declared later, read again and again
\* while classes of that name are declared.
SpecResolve == Init /\ [][NextResolve]_vars

----------------------------------------------------------------------------
(* C28 *)

\* The descriptor holds a resolved type.
Resolved(self) == self # NoField /\ ResolvedType(self) # NoObject

\* The class a resolution of the name Late from pkg.sub.Outer reaches: the
\* one in Outer, else the one in pkg.sub, else the one in pkg.
NearestLate(paths) ==
  IF <<"pkg", "sub", "Outer", "Late">> \in paths
  THEN ClassObject(<<"pkg", "sub", "Outer", "Late">>)
  ELSE IF <<"pkg", "sub", "Late">> \in paths
  THEN ClassObject(<<"pkg", "sub", "Late">>)
  ELSE IF <<"pkg", "Late">> \in paths THEN ClassObject(<<"pkg", "Late">>)
  ELSE NoObject

\* The class NearestLate is of the kind the descriptor asks for.
Resolvable(self, paths) ==
  /\ NearestLate(paths) # NoObject
  /\ namespace[NearestLate(paths).path].base = self.kind

\* A step is a read of f.type.
IsTypeRead == fields["f"] # NoField /\ last'.op = "Field.type"

\* C28: the target of a reference-typed field is resolved at most once.
\* Once f.__type is set no step changes the descriptor, and every read of
\* f.type returns that class, whatever classes were declared since; a read
\* that raises leaves the descriptor as it was, unresolved; a read of an
\* unresolved descriptor, made when the nearest class of that name is of
\* the right kind, returns that class and stores it.
C28_ResolvedAtMostOnce ==
  [][/\ Resolved(fields["f"]) => fields' = fields
     /\ (IsTypeRead /\ Resolved(fields["f"])) =>
          (last'.err = NoError /\ last'.ret = ResolvedType(fields["f"]))
     /\ (IsTypeRead /\ last'.err # NoError) =>
          (fields' = fields /\ ~Resolved(fields["f"]))
     /\ (IsTypeRead /\ ~Resolved(fields["f"]) /\
         Resolvable(fields["f"], DOMAIN namespace)) =>
          /\ last'.err = NoError
          /\ last'.ret = NearestLate(DOMAIN namespace)
          /\ ResolvedType(fields'["f"]) = NearestLate(DOMAIN namespace)
     /\ (IsTypeRead /\ ~Resolved(fields["f"]) /\
         ~Resolvable(fields["f"], DOMAIN namespace)) =>
          last'.err # NoError]_vars

\* f.type has just returned pkg.Late, which it resolved earlier, although a
\* class pkg.sub.Late of the right kind has been declared since.
C28_Witness ==
  /\ last.op = "Field.type"
  /\ last.err = NoError
  /\ last.ret = ClassObject(<<"pkg", "Late">>)
  /\ <<"pkg", "sub", "Late">> \in DOMAIN namespace
  /\ namespace[<<"pkg", "sub", "Late">>].base = fields["f"].kind

\* f.type has just raised FieldDefinitionError: pkg.sub.Late is of the
\* wrong kind, and the descriptor is still unresolved.
C28_WitnessFailed ==
  /\ last.op = "Field.type"
  /\ last.err = Error("FieldDefinitionError")
  /\ ~Resolved(fields["f"])

----------------------------------------------------------------------------
(* Threads reading f.type and f.default of one descriptor at the same      *)
(* time.  A thread is suspended between any two reads or writes of the     *)
(* descriptor's attributes; what it computes in between is local.          *)

\* Fields of pkg.sub.Outer declared with the name of a class that exists:
\* message fields and enum fields naming Outer.Inner, Outer.Color,
\* test.TradeType and a class that does not exist; the enum fields with a
\* default given as a name or a number, or none.
FixedReferenceArgs ==
  {[kind |-> kind, type |-> TextV(name), number |-> IntV(1),
    required |-> FALSE, repeated |-> FALSE, variant |-> NoneV,
    default |-> NoneV] :
     kind \in {"Message", "Enum"},
     name \in {<<"Inner">>, <<"Color">>, <<"Missing">>}} \cup
  {[kind |-> "Enum", type |-> TextV(<<"test", "TradeType">>),
    number |-> IntV(1), required |-> FALSE, repeated |-> FALSE,
    variant |-> NoneV, default |-> default] :
     default \in {NoneV, TextV("SELL"), IntV(2), TextV("bogus")}}

\* The descriptor all the threads read.
DeclareShared == DeclareReferenceFrom(FixedReferenceArgs)

\* Thread t goes on as r.
Goes(t, r) == readers' = [readers EXCEPT ![t] = r]

\* The call of thread t returns ret / raises err.
Returns(t, ret) ==
  Goes(t, [readers[t] EXCEPT !.pc = "done", !.ret = ret])
Raises(t, errs) ==
  \E e \in errs : Goes(t, [readers[t] EXCEPT !.pc = "done", !.err = e])

\* A thread starts to read f.type, or f.default of an enum field.
Call(t) ==
  /\ readers[t].pc = "idle"
  /\ fields["f"] # NoField
  /\ \E what \in {"type"} \cup
                 (IF fields["f"].kind = "Enum" THEN {"default"} ELSE {}) :
       Goes(t, [readers[t] EXCEPT !.pc = what, !.what = what])
  /\ UNCHANGED <<msg, other, last, enum, calls, namespace, fields, classes>>

\* try: return self.__resolved_default / except AttributeError:
TryDefault(t) ==
  /\ readers[t].pc = "default"
  /\ IF "_EnumField__resolved_default" \in DOMAIN fields["f"].attrs
     THEN Returns(t, fields["f"].attrs["_EnumField__resolved_default"])
     ELSE Goes(t, [readers[t] EXCEPT !.pc = "super.default"])
  /\ UNCHANGED <<msg, other, last, enum, calls, namespace, fields, classes>>

\* resolved_default = super(EnumField, self).default and the isinstance
\* test: a name or a number goes through self.type.
SuperDefault(t) ==
  /\ readers[t].pc = "super.default"
  /\ Goes(t, [readers[t] EXCEPT
                !.value = AttrOr(fields["f"], "_Field__default", NoneV),
                !.pc = IF IsInteger(AttrOr(fields["f"], "_Field__default", NoneV))
                          \/ AttrOr(fields["f"], "_Field__default", NoneV).t
                               \in {"text", "bytes"}
                       THEN "type" ELSE "store.default"])
  /\ UNCHANGED <<msg, other, last, enum, calls, namespace, fields, classes>>

\* if self.__type is None:
TestType(t) ==
  /\ readers[t].pc = "type"
  /\ Goes(t, [readers[t] EXCEPT
                !.pc = IF ResolvedType(fields["f"]) = NoObject THEN "find"
                       ELSE "return.type"])
  /\ UNCHANGED <<msg, other, last, enum, calls, namespace, fields, classes>>

\* find_definition and the check of what it found, checked being their
\* outcome: the class is held in the local variable, or the call (and the
\* call of default around it) raises.
Found(t, checked) ==
  IF Failed(checked) THEN Raises(t, checked.errs)
  ELSE Goes(t, [readers[t] EXCEPT !.found = checked.val, !.pc = "store.type"])

\* found_type = find_definition(...) and the check that follows it
Find(t) ==
  /\ readers[t].pc = "find"
  /\ Found(t, CheckFound(fields["f"], FindType(fields["f"])))
  /\ UNCHANGED <<msg, other, last, enum, calls, namespace, fields, classes>>

\* self.__type = found_type
StoreTypeStep(t) ==
  /\ readers[t].pc = "store.type"
  /\ fields' = [fields EXCEPT
                  !["f"] = StoreType(fields["f"], readers[t].found).val]
  /\ Goes(t, [readers[t] EXCEPT !.pc = "return.type"])
  /\ UNCHANGED <<msg, other, last, enum, calls, namespace, classes>>

\* self.type(resolved_default), type being what self.type returned: None
\* is not callable, an enum class looks the member up.
CallType(type, value) ==
  IF ~IsClassObject(type) THEN Raise("TypeError")
  ELSE EnumCast(ClassName(type), value)

\* The cast in EnumField.default, with outcome cast.
Cast(t, cast) ==
  IF Failed(cast) THEN Raises(t, cast.errs)
  ELSE Goes(t, [readers[t] EXCEPT !.value = cast.val, !.pc = "store.default"])

\* return self.__type: the value of a read of f.type; inside f.default the
\* class is called with the default.
ReturnType(t) ==
  /\ readers[t].pc = "return.type"
  /\ IF readers[t].what = "type" THEN Returns(t, ResolvedType(fields["f"]))
     ELSE Cast(t, CallType(ResolvedType(fields["f"]), readers[t].value))
  /\ UNCHANGED <<msg, other, last, enum, calls, namespace, fields, classes>>

\* self.__resolved_default = resolved_default
StoreDefault(t) ==
  /\ readers[t].pc = "store.default"
  /\ fields' = [fields EXCEPT
                  !["f"] = Field_setattr(fields["f"],
                                         "_EnumField__resolved_default",
                                         readers[t].value).val]
  /\ Goes(t, [readers[t] EXCEPT !.pc = "return.default"])
  /\ UNCHANGED <<msg, other, last, enum, calls, namespace, classes>>

\* return self.__resolved_default
ReturnDefault(t) ==
  /\ readers[t].pc = "return.default"
  /\ Returns(t, fields["f"].attrs["_EnumField__resolved_default"])
  /\ UNCHANGED <<msg, other, last, enum, calls, namespace, fields, classes>>

NextReaders ==
  \/ DeclareShared
  \/ \E t \in Threads : Call(t)
  \/ \E t \in Threads : TryDefault(t)
  \/ \E t \in Threads : SuperDefault(t)
  \/ \E t \in Threads : TestType(t)
  \/ \E t \in Threads : Find(t)
  \/ \E t \in Threads : StoreTypeStep(t)
  \/ \E t \in Threads : ReturnType(t)
  \/ \E t \in Threads : StoreDefault(t)
  \/ \E t \in Threads : ReturnDefault(t)

\* The first reads of one descriptor by several threads, in every
\* interleaving, the classes that exist being fixed.
SpecReaders == Init /\ [][NextReaders]_vars

----------------------------------------------------------------------------
(* C29 *)

\* What one read of f.type in isolation finds: the class, or the exception.
ExpectedType == CheckFound(fields["f"], FindType(fields["f"]))

\* What one read of f.default in isolation returns: the declared default,
\* a name or a number replaced by the member of the enum class.
ExpectedDefault ==
  IF IsInteger(AttrOr(fields["f"], "_Field__default", NoneV)) \/
     AttrOr(fields["f"], "_Field__default", NoneV).t \in {"text", "bytes"}
  THEN IF Failed(ExpectedType) THEN ExpectedType
       ELSE EnumCast(ClassName(ExpectedType.val),
                     AttrOr(fields["f"], "_Field__default", NoneV))
  ELSE Ok(AttrOr(fields["f"], "_Field__default", NoneV))

\* The call of thread t has ended as the outcome expected says.
EndedAs(t, expected) ==
  IF Failed(expected) THEN readers[t].err \in expected.errs
  ELSE readers[t].err = NoError /\ readers[t].ret = expected.val

\* C29: whatever the interleaving of the threads that read f.type or
\* f.default of an unresolved descriptor, every read that has ended returned
\* (or raised) what a read in isolation does; the slots __type and
\* __resolved_default hold nothing but None (absent) or that value at any
\* time; and once a read has returned, the slot it read holds the value it
\* returned.
C29_ReadersAgree ==
  fields["f"] # NoField =>
    /\ \A t \in Threads :
         readers[t].pc = "done" =>
           /\ readers[t].what = "type" =>
                /\ EndedAs(t, ExpectedType)
                /\ readers[t].err = NoError =>
                     ResolvedType(fields["f"]) = readers[t].ret
           /\ readers[t].what = "default" =>
                /\ EndedAs(t, ExpectedDefault)
                /\ readers[t].err = NoError =>
                     /\ "_EnumField__resolved_default" \in
                          DOMAIN fields["f"].attrs
                     /\ fields["f"].attrs["_EnumField__resolved_default"] =
                          readers[t].ret
    /\ ResolvedType(fields["f"]) # NoObject =>
         (~Failed(ExpectedType) /\
          ResolvedType(fields["f"]) = ExpectedType.val)
    /\ "_EnumField__resolved_default" \in DOMAIN fields["f"].attrs =>
         (~Failed(ExpectedDefault) /\
          fields["f"].attrs["_EnumField__resolved_default"] =
            ExpectedDefault.val)

\* Both threads found f.__type None, each resolved the name and stored the
\* class, and both reads of f.type have returned.
C29_Witness ==
  \A t \in Threads :
    /\ readers[t].pc = "done"
    /\ readers[t].what = "type"
    /\ readers[t].found # NoObject
    /\ readers[t].err = NoError

\* Both threads went through the whole of f.default, the default being the
\* name SELL, and both calls have returned the member.
C29_WitnessDefault ==
  \A t \in Threads :
    /\ readers[t].pc = "done"
    /\ readers[t].what = "default"
    /\ readers[t].found # NoObject
    /\ readers[t].ret = Member("TradeType", "SELL")

\* One thread read f.type and the other f.default, each resolving the type.
C29_WitnessMixed ==
  /\ \A t \in Threads : readers[t].pc = "done" /\ readers[t].found # NoObject
  /\ readers[1].what = "type"
  /\ readers[2].what = "default"

====
